---- MODULE Spec2Model ----
(***************************************************************************)
(* Leading-edge gene intersection pipeline of gsea-gallery:                *)
(*   parse_doxset_rinn_tsv -> invert_to_gene_counts -> write_csvs -> main  *)
(* (create_doxset_rinn_intersections.py) and the two UpSet scripts that    *)
(* carry their own copy of the parser.                                     *)
(*                                                                         *)
(* A Python str is a sequence of code points (naturals), so that strip,    *)
(* lower, split, join, startswith and string comparison are computed on    *)
(* characters.  Python indices are kept 0-based: parts[i] of the code is   *)
(* parts[i + 1] of the model.  The model's inputs are ASCII text.          *)
(***************************************************************************)
EXTENDS Integers, Sequences, FiniteSets, TLC

(***************************************************************************)
(* Bounds and literals                                                     *)
(***************************************************************************)
\* Longest file of the exhaustive family: every sequence of at most MaxLines
\* lines drawn from Lines.
MaxLines == 3

\* "\t", the field separator
TAB == 9
\* ";", the separator of the datasets field
SEMI == 59

\* "GSE"
GSE == <<71, 83, 69>>
\* "NAME\t"
NAME_TAB == <<78, 65, 77, 69, 9>>
\* "SYMBOL"
SYMBOL == <<83, 89, 77, 66, 79, 76>>
\* "CORE ENRICHMENT"
CORE_ENRICHMENT == <<67, 79, 82, 69, 32, 69, 78, 82, 73, 67, 72, 77, 69, 78, 84>>
\* "yes"
YES == <<121, 101, 115>>
\* "datasets_count"
DATASETS_COUNT == <<100, 97, 116, 97, 115, 101, 116, 115, 95, 99, 111, 117, 110, 116>>
\* "datasets"
DATASETS == <<100, 97, 116, 97, 115, 101, 116, 115>>

\* Python's None, for a str-valued local, a list-valued local and an int-valued local.
None == <<-1>>
NoneCols == <<None>>
NoneIdx == -1

(***************************************************************************)
(* Python str and list operations                                          *)
(***************************************************************************)
\* str.isspace() of one character: the characters str.strip() removes.
IsSpace(c) ==
    c \in (9..13) \cup (28..32) \cup {133, 160, 5760} \cup (8192..8202)
          \cup {8232, 8233, 8239, 8287, 12288}

RECURSIVE LStrip(_)
LStrip(s) ==
    IF s = <<>> THEN s
    ELSE IF IsSpace(Head(s)) THEN LStrip(Tail(s)) ELSE s

RECURSIVE RStrip(_)
RStrip(s) ==
    IF s = <<>> THEN s
    ELSE IF IsSpace(s[Len(s)]) THEN RStrip(SubSeq(s, 1, Len(s) - 1)) ELSE s

\* s.strip()
Strip(s) == RStrip(LStrip(s))

\* s.lower(), on ASCII text
Lower(s) == [i \in 1..Len(s) |-> IF s[i] \in 65..90 THEN s[i] + 32 ELSE s[i]]

\* s.startswith(p)
StartsWith(s, p) == Len(s) >= Len(p) /\ SubSeq(s, 1, Len(p)) = p

\* c in s, for a one-character c
Contains(s, c) == \E i \in 1..Len(s) : s[i] = c

\* s.split(c) for a one-character separator: always at least one piece.
RECURSIVE Split(_, _)
Split(s, c) ==
    IF ~Contains(s, c) THEN <<s>>
    ELSE LET i == CHOOSE k \in 1..Len(s) :
                      s[k] = c /\ \A j \in 1..(k - 1) : s[j] # c
         IN  <<SubSeq(s, 1, i - 1)>> \o Split(SubSeq(s, i + 1, Len(s)), c)

\* sep.join(list)
RECURSIVE Join(_, _)
Join(list, sep) ==
    IF list = <<>> THEN <<>>
    ELSE IF Len(list) = 1 THEN list[1]
    ELSE list[1] \o sep \o Join(Tail(list), sep)

\* a < b on str: lexicographic on code points.
StrLess(a, b) ==
    \E k \in 1..(Len(b)) :
        /\ k <= Len(a) + 1
        /\ SubSeq(a, 1, k - 1) = SubSeq(b, 1, k - 1)
        /\ (k = Len(a) + 1 \/ a[k] < b[k])

\* list.index(x): 0-based position of the first occurrence; NoneIdx stands for
\* the ValueError raised when x is not in the list.
Index(list, x) ==
    IF \E i \in 1..Len(list) : list[i] = x
    THEN (CHOOSE i \in 1..Len(list) :
              list[i] = x /\ \A j \in 1..(i - 1) : list[j] # x) - 1
    ELSE NoneIdx

\* [c.strip() for c in cells if c.strip()]
RECURSIVE StripNonEmpty(_)
StripNonEmpty(cells) ==
    IF cells = <<>> THEN <<>>
    ELSE (IF Strip(Head(cells)) # <<>> THEN <<Strip(Head(cells))>> ELSE <<>>)
         \o StripNonEmpty(Tail(cells))

\* while parts and parts[-1] == "": parts.pop()
RECURSIVE PopTrailingEmpty(_)
PopTrailingEmpty(parts) ==
    IF parts # <<>> /\ parts[Len(parts)] = <<>>
    THEN PopTrailingEmpty(SubSeq(parts, 1, Len(parts) - 1))
    ELSE parts

\* Python's "x or 0" for an int-or-None x
OrZero(x) == IF x = NoneIdx \/ x = 0 THEN 0 ELSE x

Max(a, b) == IF a >= b THEN a ELSE b

(***************************************************************************)
(* dict[str, set[str]] as the sequence of its items <<key, set>> in        *)
(* insertion order (the order dict iteration follows).                     *)
(***************************************************************************)
Keys(d) == {d[i][1] : i \in 1..Len(d)}

HasKey(d, k) == \E i \in 1..Len(d) : d[i][1] = k

\* d[k], for a key of d
Get(d, k) == d[CHOOSE i \in 1..Len(d) : d[i][1] = k][2]

\* Variant of SetDefault: d[k] = set(), which empties the set of a key already
\* in d.
SetDefaultReset(d, k) ==
    IF HasKey(d, k)
    THEN [i \in 1..Len(d) |-> IF d[i][1] = k THEN <<k, {}>> ELSE d[i]]
    ELSE Append(d, <<k, {}>>)

\* d.setdefault(k, set())
SetDefault(d, k) == IF HasKey(d, k) THEN d ELSE Append(d, <<k, {}>>)

\* d[k].add(x), for a key of d
AddTo(d, k, x) ==
    [i \in 1..Len(d) |-> IF d[i][1] = k THEN <<k, d[i][2] \cup {x}>> ELSE d[i]]

\* Variant of NonEmptyItems: the empty blocks are kept.
KeepAllItems(d) == d

\* {k: v for k, v in d.items() if v}
RECURSIVE NonEmptyItems(_)
NonEmptyItems(d) ==
    IF d = <<>> THEN <<>>
    ELSE (IF Head(d)[2] # {} THEN <<Head(d)>> ELSE <<>>) \o NonEmptyItems(Tail(d))

(***************************************************************************)
(* parse_doxset_rinn_tsv: the loop body, one input line at a time.  The    *)
(* locals of the function are the fields of a record; "raised" is the      *)
(* exception that left the function ("" when none).                        *)
(***************************************************************************)
\* The locals before the first line is read.
InitLocals ==
    [datasets_to_genes |-> <<>>,
     current_dataset   |-> None,
     header_cols       |-> NoneCols,
     symbol_idx        |-> NoneIdx,
     core_idx          |-> NoneIdx,
     raised            |-> ""]

\* not line.strip()
IsBlankLine(line) == Strip(line) = <<>>

\* "\t" not in line and line.strip().startswith("GSE")
IsDatasetLine(line) == ~Contains(line, TAB) /\ StartsWith(Strip(line), GSE)

\* header_cols is None and line.startswith("NAME\t")
IsHeaderLine(st, line) == st.header_cols = NoneCols /\ StartsWith(line, NAME_TAB)

\* [c.strip() for c in line.split("\t") if c.strip()]
HeaderCols(line) == StripNonEmpty(Split(line, TAB))

\* parts = line.split("\t"), trailing empty fields popped
Parts(line) == PopTrailingEmpty(Split(line, TAB))

\* len(parts) < max(symbol_idx or 0, core_idx or 0) + 1
IsShortRow(parts, symbol_idx, core_idx) ==
    Len(parts) < Max(OrZero(symbol_idx), OrZero(core_idx)) + 1

\* Variant of IsCoreYes: the comparison is case-sensitive.
IsCoreYesCaseSensitive(parts, core_idx) == Strip(parts[core_idx + 1]) = YES

\* parts[core_idx].strip().lower() == "yes"
IsCoreYes(parts, core_idx) == Lower(Strip(parts[core_idx + 1])) = YES

\* Variant of SymbolOf: the symbol is not trimmed.
SymbolOfUntrimmed(parts, symbol_idx) == parts[symbol_idx + 1]

\* parts[symbol_idx].strip()
SymbolOf(parts, symbol_idx) == Strip(parts[symbol_idx + 1])

\* Variant of StartBlock: the header state of the previous block is kept.
StartBlockKeepHeader(st, line) ==
    [st EXCEPT !.current_dataset   = Strip(line),
               !.datasets_to_genes = SetDefault(st.datasets_to_genes, Strip(line))]

\* The dataset-line branch: a new current block, header state reset.
StartBlock(st, line) ==
    [st EXCEPT !.current_dataset   = Strip(line),
               !.datasets_to_genes = SetDefault(st.datasets_to_genes, Strip(line)),
               !.header_cols       = NoneCols,
               !.symbol_idx        = NoneIdx,
               !.core_idx          = NoneIdx]

\* Variant of ReadHeader: a header line lacking a required name is passed over.
ReadHeaderLenient(st, line) ==
    LET cols == HeaderCols(line)
        si   == Index(cols, SYMBOL)
        ci   == Index(cols, CORE_ENRICHMENT)
    IN  IF si = NoneIdx \/ ci = NoneIdx THEN st
        ELSE [st EXCEPT !.header_cols = cols, !.symbol_idx = si, !.core_idx = ci]

\* Variant of ReadHeader: the ValueError of list.index is swallowed, leaving the
\* header recorded and the position that was not found unset.
ReadHeaderSwallow(st, line) ==
    LET cols == HeaderCols(line)
        si   == Index(cols, SYMBOL)
        ci   == Index(cols, CORE_ENRICHMENT)
    IN  IF si = NoneIdx THEN [st EXCEPT !.header_cols = cols]
        ELSE [st EXCEPT !.header_cols = cols, !.symbol_idx = si, !.core_idx = ci]

\* The header-line branch: the two list.index calls run in order, and the first
\* one that fails raises ValueError out of the function.
ReadHeader(st, line) ==
    LET cols == HeaderCols(line)
        si   == Index(cols, SYMBOL)
        ci   == Index(cols, CORE_ENRICHMENT)
    IN  IF si = NoneIdx
        THEN [st EXCEPT !.header_cols = cols, !.raised = "ValueError"]
        ELSE IF ci = NoneIdx
        THEN [st EXCEPT !.header_cols = cols, !.symbol_idx = si,
                        !.raised = "ValueError"]
        ELSE [st EXCEPT !.header_cols = cols, !.symbol_idx = si, !.core_idx = ci]

\* Variant of ReadRow: the length test is missing, so that indexing a short row
\* raises IndexError.
ReadRowUnchecked(st, line) ==
    LET parts == Parts(line)
    IN  IF IsShortRow(parts, st.symbol_idx, st.core_idx)
        THEN [st EXCEPT !.raised = "IndexError"]
        ELSE IF IsCoreYes(parts, st.core_idx)
                /\ SymbolOf(parts, st.symbol_idx) # <<>>
        THEN [st EXCEPT !.datasets_to_genes =
                  AddTo(st.datasets_to_genes, st.current_dataset,
                        SymbolOf(parts, st.symbol_idx))]
        ELSE st

\* The data-row branch.
ReadRow(st, line) ==
    LET parts == Parts(line)
    IN  IF IsShortRow(parts, st.symbol_idx, st.core_idx) THEN st
        ELSE IF IsCoreYes(parts, st.core_idx)
                /\ SymbolOf(parts, st.symbol_idx) # <<>>
        THEN [st EXCEPT !.datasets_to_genes =
                  AddTo(st.datasets_to_genes, st.current_dataset,
                        SymbolOf(parts, st.symbol_idx))]
        ELSE st

\* Variant of ScanLine: the test "header_cols is None" is missing before a row is
\* read, so that indexing the row with a None position raises TypeError.
ScanLineUnguarded(st, line) ==
    IF IsBlankLine(line) THEN st
    ELSE IF IsDatasetLine(line) THEN StartBlock(st, line)
    ELSE IF IsHeaderLine(st, line) THEN ReadHeader(st, line)
    ELSE IF st.current_dataset = None THEN st
    ELSE IF st.header_cols = NoneCols THEN [st EXCEPT !.raised = "TypeError"]
    ELSE ReadRow(st, line)

\* One iteration of "for raw_line in f" (create_doxset_rinn_intersections.py).
ScanLine(st, line) ==
    IF IsBlankLine(line) THEN st
    ELSE IF IsDatasetLine(line) THEN StartBlock(st, line)
    ELSE IF IsHeaderLine(st, line) THEN ReadHeader(st, line)
    ELSE IF st.current_dataset = None \/ st.header_cols = NoneCols THEN st
    ELSE ReadRow(st, line)

\* Variant of ReadRowUpset: the flag is compared with "yes" as written, without
\* lower-casing.
ReadRowUpsetExact(st, line) ==
    LET parts == PopTrailingEmpty(Split(line, TAB))
    IN  IF Len(parts) < Max(OrZero(st.symbol_idx), OrZero(st.core_idx)) + 1 THEN st
        ELSE LET core_val == Strip(parts[st.core_idx + 1])
                 symbol   == Strip(parts[st.symbol_idx + 1])
             IN  IF core_val = YES /\ symbol # <<>>
                 THEN [st EXCEPT !.datasets_to_genes =
                           AddTo(st.datasets_to_genes, st.current_dataset, symbol)]
                 ELSE st

\* The data-row branch of the copy in create_doxset_rinn_upset.py.
ReadRowUpset(st, line) ==
    LET parts == PopTrailingEmpty(Split(line, TAB))
    IN  IF Len(parts) < Max(OrZero(st.symbol_idx), OrZero(st.core_idx)) + 1 THEN st
        ELSE LET core_val == Strip(parts[st.core_idx + 1])
                 symbol   == Strip(parts[st.symbol_idx + 1])
             IN  IF Lower(core_val) = YES /\ symbol # <<>>
                 THEN [st EXCEPT !.datasets_to_genes =
                           AddTo(st.datasets_to_genes, st.current_dataset, symbol)]
                 ELSE st

\* One iteration of the loop of the copy in create_doxset_rinn_upset.py: the
\* ValueError of list.index is caught and raised again as RuntimeError.
ScanLineUpset(st, line) ==
    IF Strip(line) = <<>> THEN st
    ELSE IF ~Contains(line, TAB) /\ StartsWith(Strip(line), GSE)
    THEN [st EXCEPT !.current_dataset   = Strip(line),
                    !.datasets_to_genes = SetDefault(st.datasets_to_genes, Strip(line)),
                    !.header_cols       = NoneCols,
                    !.symbol_idx        = NoneIdx,
                    !.core_idx          = NoneIdx]
    ELSE IF st.header_cols = NoneCols /\ StartsWith(line, NAME_TAB)
    THEN LET cols == StripNonEmpty(Split(line, TAB))
             si   == Index(cols, SYMBOL)
             ci   == Index(cols, CORE_ENRICHMENT)
         IN  IF si = NoneIdx
             THEN [st EXCEPT !.header_cols = cols, !.raised = "RuntimeError"]
             ELSE IF ci = NoneIdx
             THEN [st EXCEPT !.header_cols = cols, !.symbol_idx = si,
                             !.raised = "RuntimeError"]
             ELSE [st EXCEPT !.header_cols = cols, !.symbol_idx = si, !.core_idx = ci]
    ELSE IF st.current_dataset = None \/ st.header_cols = NoneCols THEN st
    ELSE ReadRowUpset(st, line)

\* One iteration of the loop of the copy in create_doxset_rinn_upset_full.py.
ScanLineUpsetFull(st, line) ==
    IF Strip(line) = <<>> THEN st
    ELSE IF ~Contains(line, TAB) /\ StartsWith(Strip(line), GSE)
    THEN [st EXCEPT !.current_dataset   = Strip(line),
                    !.datasets_to_genes = SetDefault(st.datasets_to_genes, Strip(line)),
                    !.header_cols       = NoneCols,
                    !.symbol_idx        = NoneIdx,
                    !.core_idx          = NoneIdx]
    ELSE IF st.header_cols = NoneCols /\ StartsWith(line, NAME_TAB)
    THEN LET cols == StripNonEmpty(Split(line, TAB))
             si   == Index(cols, SYMBOL)
             ci   == Index(cols, CORE_ENRICHMENT)
         IN  IF si = NoneIdx
             THEN [st EXCEPT !.header_cols = cols, !.raised = "ValueError"]
             ELSE IF ci = NoneIdx
             THEN [st EXCEPT !.header_cols = cols, !.symbol_idx = si,
                             !.raised = "ValueError"]
             ELSE [st EXCEPT !.header_cols = cols, !.symbol_idx = si, !.core_idx = ci]
    ELSE IF st.current_dataset = None \/ st.header_cols = NoneCols THEN st
    ELSE LET parts == PopTrailingEmpty(Split(line, TAB))
         IN  IF Len(parts) < Max(OrZero(st.symbol_idx), OrZero(st.core_idx)) + 1 THEN st
             ELSE IF Lower(Strip(parts[st.core_idx + 1])) = YES
                     /\ Strip(parts[st.symbol_idx + 1]) # <<>>
             THEN [st EXCEPT !.datasets_to_genes =
                       AddTo(st.datasets_to_genes, st.current_dataset,
                             Strip(parts[st.symbol_idx + 1]))]
             ELSE st

\* parse_doxset_rinn_tsv of each script on a whole file: the loop runs until the
\* lines are exhausted or an exception leaves the function, then the empty
\* blocks are dropped.  The outcome is the exception raised ("" when none) and
\* the mapping returned.
RECURSIVE LoopIntersections(_, _)
LoopIntersections(st, f) ==
    IF f = <<>> \/ st.raised # "" THEN st
    ELSE LoopIntersections(ScanLine(st, Head(f)), Tail(f))

ParseIntersections(f) ==
    LET st == LoopIntersections(InitLocals, f)
    IN  IF st.raised # "" THEN [raised |-> st.raised, result |-> <<>>]
        ELSE [raised |-> "", result |-> NonEmptyItems(st.datasets_to_genes)]

RECURSIVE LoopUpset(_, _)
LoopUpset(st, f) ==
    IF f = <<>> \/ st.raised # "" THEN st
    ELSE LoopUpset(ScanLineUpset(st, Head(f)), Tail(f))

ParseUpset(f) ==
    LET st   == LoopUpset(InitLocals, f)
        kept == NonEmptyItems(st.datasets_to_genes)
    IN  IF st.raised # "" THEN [raised |-> st.raised, result |-> <<>>]
        ELSE IF kept = <<>> THEN [raised |-> "RuntimeError", result |-> <<>>]
        ELSE [raised |-> "", result |-> kept]

RECURSIVE LoopUpsetFull(_, _)
LoopUpsetFull(st, f) ==
    IF f = <<>> \/ st.raised # "" THEN st
    ELSE LoopUpsetFull(ScanLineUpsetFull(st, Head(f)), Tail(f))

ParseUpsetFull(f) ==
    LET st == LoopUpsetFull(InitLocals, f)
    IN  IF st.raised # "" THEN [raised |-> st.raised, result |-> <<>>]
        ELSE [raised |-> "", result |-> NonEmptyItems(st.datasets_to_genes)]

(***************************************************************************)
(* invert_to_gene_counts                                                   *)
(***************************************************************************)
\* Every sequence that enumerates the set S once: the orders in which
\* "for g in genes" may visit a set (the order is the interpreter's choice).
PermSeqs(S) ==
    {p \in [1..Cardinality(S) -> S] :
        \A i, j \in 1..Cardinality(S) : p[i] = p[j] => i = j}

\* The sequences of <<ds, g>> the two nested loops may go through: the items of
\* the dict in insertion order, the genes of each set in any order.
RECURSIVE VisitOrders(_)
VisitOrders(d) ==
    IF d = <<>> THEN {<<>>}
    ELSE {[i \in 1..Len(p) |-> <<Head(d)[1], p[i]>>] \o rest :
              p \in PermSeqs(Head(d)[2]), rest \in VisitOrders(Tail(d))}

\* Variant of InvertAdd: the set of g is overwritten instead of extended.
InvertAddOverwrite(acc, ds, g) ==
    LET d == SetDefault(acc, g)
    IN  [i \in 1..Len(d) |-> IF d[i][1] = g THEN <<g, {ds}>> ELSE d[i]]

\* Variant of InvertAdd: key and element are swapped.
InvertAddSwapped(acc, ds, g) == AddTo(SetDefault(acc, ds), ds, g)

\* gene_to_datasets[g].add(ds) on a defaultdict(set)
InvertAdd(acc, ds, g) == AddTo(SetDefault(acc, g), g, ds)

RECURSIVE InvertFold(_, _)
InvertFold(acc, visits) ==
    IF visits = <<>> THEN acc
    ELSE InvertFold(InvertAdd(acc, Head(visits)[1], Head(visits)[2]), Tail(visits))

\* invert_to_gene_counts, for one order of visits
invert_to_gene_counts(visits) == InvertFold(<<>>, visits)

(***************************************************************************)
(* write_csvs                                                              *)
(***************************************************************************)
\* list(S): the elements of a set in some order
RECURSIVE SetToSeq(_)
SetToSeq(S) ==
    IF S = {} THEN <<>>
    ELSE LET x == CHOOSE y \in S : TRUE IN <<x>> \o SetToSeq(S \ {x})

\* One step of a stable sort of strings: x goes before the first element greater
\* than it.
InsertStr(sorted, x) ==
    IF \E i \in 1..Len(sorted) : StrLess(x, sorted[i])
    THEN LET k == CHOOSE i \in 1..Len(sorted) :
                      StrLess(x, sorted[i])
                      /\ \A j \in 1..(i - 1) : ~StrLess(x, sorted[j])
         IN  SubSeq(sorted, 1, k - 1) \o <<x>> \o SubSeq(sorted, k, Len(sorted))
    ELSE Append(sorted, x)

RECURSIVE SortStrs(_)
SortStrs(list) ==
    IF list = <<>> THEN <<>>
    ELSE InsertStr(SortStrs(SubSeq(list, 1, Len(list) - 1)), list[Len(list)])

\* Variant of Sorted: descending order.
SortedDescending(S) ==
    LET asc == SortStrs(SetToSeq(S))
    IN  [i \in 1..Len(asc) |-> asc[Len(asc) + 1 - i]]

\* sorted(ds_set)
Sorted(S) == SortStrs(SetToSeq(S))

\* Variant of RowKeyLess: the key is the count alone, without the gene symbol.
RowKeyLessCountOnly(r1, r2) == -r1[2] < -r2[2]

\* key=lambda x: (-x[1], x[0]), compared as Python compares tuples
RowKeyLess(r1, r2) ==
    \/ -r1[2] < -r2[2]
    \/ (-r1[2] = -r2[2] /\ StrLess(r1[1], r2[1]))

InsertRow(sorted, x) ==
    IF \E i \in 1..Len(sorted) : RowKeyLess(x, sorted[i])
    THEN LET k == CHOOSE i \in 1..Len(sorted) :
                      RowKeyLess(x, sorted[i])
                      /\ \A j \in 1..(i - 1) : ~RowKeyLess(x, sorted[j])
         IN  SubSeq(sorted, 1, k - 1) \o <<x>> \o SubSeq(sorted, k, Len(sorted))
    ELSE Append(sorted, x)

\* Variant of SortRows: the rows are left in the order of the dict.
RowsAsInserted(rows) == rows

\* rows.sort(key=...): list.sort is stable
RECURSIVE SortRows(_)
SortRows(rows) ==
    IF rows = <<>> THEN <<>>
    ELSE InsertRow(SortRows(SubSeq(rows, 1, Len(rows) - 1)), rows[Len(rows)])

\* rows = [(gene, len(ds_set), sorted(ds_set)) for gene, ds_set in ...items()]
RowTuples(g2d) ==
    [i \in 1..Len(g2d) |->
        <<g2d[i][1], Cardinality(g2d[i][2]), Sorted(g2d[i][2])>>]

\* The rows of write_csvs after rows.sort
SortedRows(g2d) == SortRows(RowTuples(g2d))

\* writer.writerow([gene, count, ";".join(ds_list)])
CsvRow(row) == <<row[1], row[2], Join(row[3], <<SEMI>>)>>

\* Variant of MaxCount: the count of the last row instead of the first.
MaxCountOfLast(rows) == IF rows # <<>> THEN rows[Len(rows)][2] ELSE 0

\* max_count = rows[0][1] if rows else 0
MaxCount(rows) == IF rows # <<>> THEN rows[1][2] ELSE 0

\* for gene, count, ds_list in rows: if count == max_count: ...
MaxOnlyRows(rows) ==
    LET max_count == MaxCount(rows)
        IsMax(r)  == r[2] = max_count
    IN  SelectSeq(rows, IsMax)

\* The characters of csv.writer's default dialect: delimiter, quote character and
\* the line terminator "\r\n".
COMMA == 44
QUOTE == 34
CR == 13
LF == 10

\* str(n) for a count n >= 0
RECURSIVE Str(_)
Str(n) == IF n < 10 THEN <<48 + n>> ELSE Str(n \div 10) \o <<48 + (n % 10)>>

\* Every double quote of the field doubled.
RECURSIVE DoubleQuotes(_)
DoubleQuotes(s) ==
    IF s = <<>> THEN <<>>
    ELSE (IF Head(s) = QUOTE THEN <<QUOTE, QUOTE>> ELSE <<Head(s)>>)
             \o DoubleQuotes(Tail(s))

\* Variant of CsvField: no field is quoted.
CsvFieldBare(s) == s

\* One field as csv.writer writes it (minimal quoting): a field holding the
\* delimiter, the quote character or a character of the line terminator is put
\* in quotes, its quotes doubled.
CsvField(s) ==
    IF Contains(s, COMMA) \/ Contains(s, QUOTE) \/ Contains(s, CR) \/ Contains(s, LF)
    THEN <<QUOTE>> \o DoubleQuotes(s) \o <<QUOTE>>
    ELSE s

\* writer.writerow(fields), for fields that are strings
CsvLine(fields) ==
    Join([i \in 1..Len(fields) |-> CsvField(fields[i])], <<COMMA>>) \o <<CR, LF>>

\* A CSV file: whether it exists, the header row and the data rows handed to
\* the writer, and the lines the writer wrote.
NoCsv == [exists |-> FALSE, header |-> <<>>, rows |-> <<>>, text |-> <<>>]

CsvFile(rows) ==
    LET header  == <<SYMBOL, DATASETS_COUNT, DATASETS>>
        written == [i \in 1..Len(rows) |-> CsvRow(rows[i])]
    IN  [exists |-> TRUE,
         header |-> header,
         rows   |-> written,
         text   |-> <<CsvLine(header)>> \o
                    [i \in 1..Len(written) |->
                        CsvLine(<<written[i][1], Str(written[i][2]), written[i][3]>>)]]

\* The file DOXSET_RINN_intersections_full.csv that write_csvs leaves
FullCsv(g2d) == CsvFile(SortedRows(g2d))

\* The file DOXSET_RINN_intersections_max_only.csv that write_csvs leaves
MaxCsv(g2d) == CsvFile(MaxOnlyRows(SortedRows(g2d)))

(***************************************************************************)
(* Input lines (each without its line terminator) and input files          *)
(***************************************************************************)
\* "GSE1"
DS1 == <<71, 83, 69, 49>>
\* "GSE2"
DS2 == <<71, 83, 69, 50>>
\* "GSE1;2"
DS_SEMI == <<71, 83, 69, 49, 59, 50>>
\* "NAME\tSYMBOL\tCORE ENRICHMENT"
HDR == <<78, 65, 77, 69, 9, 83, 89, 77, 66, 79, 76, 9, 67, 79, 82, 69, 32, 69, 78, 82, 73, 67, 72, 77, 69, 78, 84>>
\* "NAME\tSYMBOL"
HDR_NO_CORE == <<78, 65, 77, 69, 9, 83, 89, 77, 66, 79, 76>>
\* "NAME\tCORE ENRICHMENT"
HDR_NO_SYMBOL == <<78, 65, 77, 69, 9, 67, 79, 82, 69, 32, 69, 78, 82, 73, 67, 72, 77, 69, 78, 84>>
\* "NAME\t\tSYMBOL\tCORE ENRICHMENT"
HDR_GAP == <<78, 65, 77, 69, 9, 9, 83, 89, 77, 66, 79, 76, 9, 67, 79, 82, 69, 32, 69, 78, 82, 73, 67, 72, 77, 69, 78, 84>>
\* "r\tA\tYes"
ROW_A == <<114, 9, 65, 9, 89, 101, 115>>
\* "r\t B \tYES "
ROW_B == <<114, 9, 32, 66, 32, 9, 89, 69, 83, 32>>
\* "r\tC\tyes\t"
ROW_C == <<114, 9, 67, 9, 121, 101, 115, 9>>
\* "r\tA\tNo"
ROW_A_NO == <<114, 9, 65, 9, 78, 111>>
\* "r\t \tyes"
ROW_NO_SYMBOL == <<114, 9, 32, 9, 121, 101, 115>>
\* "r\tA\t"
ROW_SHORT == <<114, 9, 65, 9>>
\* "r\tB\tYes"
ROW_B_PLAIN == <<114, 9, 66, 9, 89, 101, 115>>
\* "r\tC\tYes"
ROW_C_PLAIN == <<114, 9, 67, 9, 89, 101, 115>>
\* " "
BLANK == <<32>>

\* The lines of the exhaustive family.
Lines ==
    {DS1, DS2, HDR, HDR_NO_CORE, HDR_NO_SYMBOL, HDR_GAP,
     ROW_A, ROW_B, ROW_A_NO, ROW_NO_SYMBOL, ROW_SHORT, BLANK}

\* Every file of at most MaxLines lines of Lines.
ShortFiles == UNION {[1..n -> Lines] : n \in 0..MaxLines}

\* Every file of two blocks of two rows each, as the concatenator lays them out.
BlockIds == {DS1, DS2, DS_SEMI}
BlockRows == {ROW_A, ROW_B, ROW_C, ROW_A_NO}
TwoBlockFiles ==
    {<<d1, HDR, r1, r2, d2, HDR, r3, r4>> :
        d1 \in BlockIds, d2 \in BlockIds,
        r1 \in BlockRows, r2 \in BlockRows, r3 \in BlockRows, r4 \in BlockRows}

\* The example of the specification: GSE1 with flagged genes {A, B}, GSE2 with
\* flagged genes {B, C}.
ExampleFile == <<DS1, HDR, ROW_A, ROW_B_PLAIN, DS2, HDR, ROW_B_PLAIN, ROW_C_PLAIN>>

\* Every file of a block of three flagged rows followed by a block of two.
FlaggedRows == {ROW_A, ROW_B_PLAIN, ROW_C_PLAIN}
WideFiles ==
    {<<DS1, HDR, r1, r2, r3, DS2, HDR, r4, r5>> :
        r1 \in FlaggedRows, r2 \in FlaggedRows, r3 \in FlaggedRows,
        r4 \in FlaggedRows, r5 \in FlaggedRows}

\* "r\tA,B\tYes" and "r\tA\"\tYes": symbols holding a comma and a double quote
ROW_COMMA == <<114, 9, 65, 44, 66, 9, 89, 101, 115>>
ROW_QUOTE == <<114, 9, 65, 34, 9, 89, 101, 115>>

\* Every file of one block of three rows, short rows and symbols with CSV
\* metacharacters among them.
MixedRows == {ROW_SHORT, ROW_A, ROW_B_PLAIN, ROW_A_NO, ROW_COMMA, ROW_QUOTE}
OneBlockFiles ==
    {<<DS1, HDR, r1, r2, r3>> : r1 \in MixedRows, r2 \in MixedRows, r3 \in MixedRows}

Files ==
    ShortFiles \cup TwoBlockFiles \cup WideFiles \cup OneBlockFiles \cup {ExampleFile}

Scripts == {"intersections", "upset", "upset_full"}

(***************************************************************************)
(* State                                                                   *)
(***************************************************************************)
VARIABLES
    script,            \* which script runs
    file,              \* the lines of the input file
    pos,               \* the next line "for raw_line in f" yields (1-based)
    pc,                \* "parse", "raised", "parsed", "inverted", "written", "exit"
    locals,            \* the locals of parse_doxset_rinn_tsv
    returned,          \* main's datasets_to_genes: what the parser returned
    gene_to_datasets,  \* main's gene_to_datasets
    outdir_exists,     \* whether the output directory exists
    full_csv,          \* DOXSET_RINN_intersections_full.csv
    max_csv,           \* DOXSET_RINN_intersections_max_only.csv
    plots,             \* the plot files the UpSet scripts have saved
    exit_code,         \* what main returned or SystemExit carried; NoExit before
    error,             \* the exception that ended the run, "" when none
    run,               \* 1 for the first run on the file, 2 for the second
    prev_full,         \* full_csv as the first run left it
    prev_max,          \* max_csv as the first run left it
    stats,             \* the NES, FDR q-value and nominal p-value of a gene set
    significance,      \* what evaluate_significance returned for them
    figure,            \* the badge the comparison figure gives them
    tree,              \* the GSEA result folders: their names and the named TSV of each
    out_file,          \* the output file of concatenate_tsv_files: its text, or NoFile
    cat,               \* the locals of concatenate_tsv_files
    html,              \* a call of find_html_file: arguments, folders, result
    png                \* a call of ensure_png: the two files, the clock, the result

\* The variables of the three DOXSET_RINN scripts and those of the other programs.
pipelineVars ==
    <<script, file, pos, pc, locals, returned, gene_to_datasets, outdir_exists,
      full_csv, max_csv, plots, exit_code, error, run, prev_full, prev_max>>

significanceVars == <<stats, significance, figure>>
concatVars == <<tree, out_file, cat>>
toolVars == <<significanceVars, concatVars, html, png>>

vars == <<pipelineVars, toolVars>>

NoExit == -1

(***************************************************************************)
(* analyze_gsea_results.py and create_comparison_figure.py: the cutoffs.   *)
(* A statistic is None, the float nan or a number, held in thousandths.    *)
(***************************************************************************)
NoneStat == [kind |-> "None", milli |-> 0]
NaN == [kind |-> "nan", milli |-> 0]
Float(m) == [kind |-> "float", milli |-> m]

\* abs(x), x <= c, x >= c and x < c on floats, c in thousandths: a comparison
\* with nan is False.
FloatAbs(x) == IF x.kind = "float" /\ x.milli < 0 THEN Float(-x.milli) ELSE x
FloatLe(x, c) == x.kind = "float" /\ x.milli <= c
FloatGe(x, c) == x.kind = "float" /\ x.milli >= c
FloatLt(x, c) == x.kind = "float" /\ x.milli < c

\* The cutoffs 1.0, 0.25 and 0.05 of evaluate_significance and the cutoffs 0.25
\* and 0.05 of the comparison figure, in thousandths.
NES_CUTOFF == 1000
FDR_CUTOFF == 250
PVAL_CUTOFF == 50
FIGURE_FDR_CUTOFF == 250
FIGURE_PVAL_CUTOFF == 50

\* Variant of evaluate_significance: the overall result asks for all three
\* cutoffs to be met.
evaluate_significance_all(nes, fdr, pval) ==
    LET nes_significant  == IF nes # NoneStat THEN FloatGe(FloatAbs(nes), NES_CUTOFF)
                            ELSE FALSE
        fdr_significant  == IF fdr # NoneStat THEN FloatLe(fdr, FDR_CUTOFF) ELSE FALSE
        pval_significant == IF pval # NoneStat THEN FloatLe(pval, PVAL_CUTOFF) ELSE FALSE
        overall_significant == nes_significant /\ fdr_significant /\ pval_significant
    IN  <<nes_significant, fdr_significant, pval_significant, overall_significant>>

\* evaluate_significance(nes, fdr, pval)
evaluate_significance(nes, fdr, pval) ==
    LET nes_significant  == IF nes # NoneStat THEN FloatGe(FloatAbs(nes), NES_CUTOFF)
                            ELSE FALSE
        fdr_significant  == IF fdr # NoneStat THEN FloatLe(fdr, FDR_CUTOFF) ELSE FALSE
        pval_significant == IF pval # NoneStat THEN FloatLe(pval, PVAL_CUTOFF) ELSE FALSE
        overall_significant == fdr_significant
    IN  <<nes_significant, fdr_significant, pval_significant, overall_significant>>

\* Variant of FigureSignificant: the cutoffs are inclusive.
FigureSignificantInclusive(fdr, pval) ==
    FloatLe(fdr, FIGURE_FDR_CUTOFF) /\ FloatLe(pval, FIGURE_PVAL_CUTOFF)

\* significant = (fdr < 0.25) and (pval < 0.05)
FigureSignificant(fdr, pval) ==
    FloatLt(fdr, FIGURE_FDR_CUTOFF) /\ FloatLt(pval, FIGURE_PVAL_CUTOFF)

\* The statistics tried: None, nan, and the numbers within Margin thousandths of
\* zero and of each cutoff, with either sign.
Margin == 1
StatValues ==
    {NoneStat, NaN} \cup
    {Float(sign * (c + d)) :
        sign \in {-1, 1}, c \in {0, PVAL_CUTOFF, FDR_CUTOFF, NES_CUTOFF},
        d \in (-Margin)..Margin}

\* No statistic is under evaluation.
NotEvaluated == <<>>
\* No file at a path.
NoFile == <<-1>>

SignificanceIdle ==
    /\ stats = <<NoneStat, NoneStat, NoneStat>>
    /\ significance = NotEvaluated
    /\ figure = ""

ConcatIdle ==
    /\ tree = {}
    /\ out_file = NoFile
    /\ cat = [pc |-> "idle"]

HtmlIdle == html = [pc |-> "idle"]

PngIdle == png = [pc |-> "idle"]

ToolsIdle == SignificanceIdle /\ ConcatIdle /\ HtmlIdle /\ PngIdle

\* The three scripts are not running.
PipelineIdle ==
    /\ script = "intersections"
    /\ file = <<>>
    /\ pos = 1
    /\ pc = "idle"
    /\ locals = InitLocals
    /\ returned = <<>>
    /\ gene_to_datasets = <<>>
    /\ outdir_exists = FALSE
    /\ full_csv = NoCsv
    /\ max_csv = NoCsv
    /\ plots = {}
    /\ exit_code = -1
    /\ error = ""
    /\ run = 1
    /\ prev_full = NoCsv
    /\ prev_max = NoCsv

InitRun ==
    /\ pos = 1
    /\ pc = "parse"
    /\ locals = InitLocals
    /\ returned = <<>>
    /\ gene_to_datasets = <<>>
    /\ outdir_exists = FALSE
    /\ full_csv = NoCsv
    /\ max_csv = NoCsv
    /\ plots = {}
    /\ exit_code = NoExit
    /\ error = ""
    /\ run = 1
    /\ prev_full = NoCsv
    /\ prev_max = NoCsv

\* The intersections script started on any input file.
Init ==
    /\ script = "intersections"
    /\ file \in Files
    /\ InitRun
    /\ ToolsIdle

\* Any of the three scripts started on any input file.
InitScripts ==
    /\ script \in Scripts
    /\ file \in Files
    /\ InitRun
    /\ ToolsIdle

(***************************************************************************)
(* Steps                                                                   *)
(***************************************************************************)
\* The loop body of the running script's parse_doxset_rinn_tsv.
ScanLineOf(s, st, line) ==
    IF s = "upset" THEN ScanLineUpset(st, line)
    ELSE IF s = "upset_full" THEN ScanLineUpsetFull(st, line)
    ELSE ScanLine(st, line)

\* create_doxset_rinn_upset.py only: "if not datasets_to_genes: raise RuntimeError"
RaisesOnNothingParsed(s, kept) == s = "upset" /\ kept = <<>>

\* "for raw_line in f": one line is read and handled; an exception leaves the
\* function and, uncaught by main, ends the run.
ReadLine ==
    /\ pc = "parse"
    /\ pos <= Len(file)
    /\ locals' = ScanLineOf(script, locals, file[pos])
    /\ pos' = pos + 1
    /\ pc' = IF locals'.raised # "" THEN "raised" ELSE "parse"
    /\ error' = locals'.raised
    /\ UNCHANGED <<script, file, returned, gene_to_datasets, outdir_exists, full_csv,
                   max_csv, plots, exit_code, run, prev_full, prev_max>>
    /\ UNCHANGED toolVars

\* End of file: the parser drops the empty blocks and returns; the copy of
\* create_doxset_rinn_upset.py raises RuntimeError when nothing is left.
ReturnParsed ==
    /\ pc = "parse"
    /\ pos > Len(file)
    /\ LET kept == NonEmptyItems(locals.datasets_to_genes)
       IN  IF RaisesOnNothingParsed(script, kept)
           THEN /\ pc' = "raised"
                /\ error' = "RuntimeError"
                /\ UNCHANGED returned
           ELSE /\ pc' = "parsed"
                /\ returned' = kept
                /\ UNCHANGED error
    /\ UNCHANGED <<script, file, pos, locals, gene_to_datasets, outdir_exists, full_csv,
                   max_csv, plots, exit_code, run, prev_full, prev_max>>
    /\ UNCHANGED toolVars

\* Variant of MainNoGenes: the output directory is made before the result of
\* the parser is tested.
MainNoGenesMkdir ==
    /\ pc = "parsed"
    /\ script = "intersections"
    /\ returned = <<>>
    /\ outdir_exists' = TRUE
    /\ exit_code' = 1
    /\ pc' = "exit"
    /\ UNCHANGED <<script, file, pos, locals, returned, gene_to_datasets,
                   full_csv, max_csv, plots, error, run, prev_full, prev_max>>
    /\ UNCHANGED toolVars

\* main of the intersections script: "if not datasets_to_genes: return 1"
MainNoGenes ==
    /\ pc = "parsed"
    /\ script = "intersections"
    /\ returned = <<>>
    /\ exit_code' = 1
    /\ pc' = "exit"
    /\ UNCHANGED <<script, file, pos, locals, returned, gene_to_datasets, outdir_exists,
                   full_csv, max_csv, plots, error, run, prev_full, prev_max>>
    /\ UNCHANGED toolVars

\* main: gene_to_datasets = invert_to_gene_counts(datasets_to_genes)
MainInvert ==
    /\ pc = "parsed"
    /\ script = "intersections"
    /\ returned # <<>>
    /\ \E visits \in VisitOrders(returned) :
           gene_to_datasets' = invert_to_gene_counts(visits)
    /\ pc' = "inverted"
    /\ UNCHANGED <<script, file, pos, locals, returned, outdir_exists, full_csv, max_csv,
                   plots, exit_code, error, run, prev_full, prev_max>>
    /\ UNCHANGED toolVars

\* Variant of MainWrite: the items of gene_to_datasets are popped as their rows
\* are built, leaving the dict empty.
MainWriteConsuming ==
    /\ pc = "inverted"
    /\ outdir_exists' = TRUE
    /\ full_csv' = FullCsv(gene_to_datasets)
    /\ max_csv' = MaxCsv(gene_to_datasets)
    /\ gene_to_datasets' = <<>>
    /\ pc' = "written"
    /\ UNCHANGED <<script, file, pos, locals, returned, plots,
                   exit_code, error, run, prev_full, prev_max>>
    /\ UNCHANGED toolVars

\* main: write_csvs(gene_to_datasets, args.outdir)
MainWrite ==
    /\ pc = "inverted"
    /\ outdir_exists' = TRUE
    /\ full_csv' = FullCsv(gene_to_datasets)
    /\ max_csv' = MaxCsv(gene_to_datasets)
    /\ pc' = "written"
    /\ UNCHANGED <<script, file, pos, locals, returned, gene_to_datasets, plots,
                   exit_code, error, run, prev_full, prev_max>>
    /\ UNCHANGED toolVars

\* main: the paths are printed and 0 is returned
MainReturn ==
    /\ pc = "written"
    /\ exit_code' = 0
    /\ pc' = "exit"
    /\ UNCHANGED <<script, file, pos, locals, returned, gene_to_datasets, outdir_exists,
                   full_csv, max_csv, plots, error, run, prev_full, prev_max>>
    /\ UNCHANGED toolVars

\* main of create_doxset_rinn_upset_full.py: SystemExit with a message (exit
\* status 1) when the parser returned nothing.
UpsetFullNoGenes ==
    /\ pc = "parsed"
    /\ script = "upset_full"
    /\ returned = <<>>
    /\ exit_code' = 1
    /\ error' = "SystemExit"
    /\ pc' = "exit"
    /\ UNCHANGED <<script, file, pos, locals, returned, gene_to_datasets, outdir_exists,
                   full_csv, max_csv, plots, run, prev_full, prev_max>>
    /\ UNCHANGED toolVars

\* main of the UpSet scripts: the plot is rendered and saved, 0 is returned.
UpsetPlot ==
    /\ pc = "parsed"
    /\ script \in {"upset", "upset_full"}
    /\ returned # <<>>
    /\ outdir_exists' = TRUE
    /\ plots' = IF script = "upset" THEN {"png", "svg"} ELSE {"svg"}
    /\ exit_code' = 0
    /\ pc' = "exit"
    /\ UNCHANGED <<script, file, pos, locals, returned, gene_to_datasets, full_csv,
                   max_csv, error, run, prev_full, prev_max>>
    /\ UNCHANGED toolVars

\* The intersections script is started again on the unchanged input file, with
\* the output directory as the first run left it.
Rerun ==
    /\ pc = "exit"
    /\ script = "intersections"
    /\ run = 1
    /\ run' = 2
    /\ prev_full' = full_csv
    /\ prev_max' = max_csv
    /\ pos' = 1
    /\ pc' = "parse"
    /\ locals' = InitLocals
    /\ returned' = <<>>
    /\ gene_to_datasets' = <<>>
    /\ exit_code' = NoExit
    /\ error' = ""
    /\ UNCHANGED <<script, file, outdir_exists, full_csv, max_csv, plots>>
    /\ UNCHANGED toolVars

Next ==
    \/ ReadLine
    \/ ReturnParsed
    \/ MainNoGenes
    \/ MainInvert
    \/ MainWrite
    \/ MainReturn

NextScripts ==
    \/ Next
    \/ UpsetFullNoGenes
    \/ UpsetPlot

NextRerun ==
    \/ Next
    \/ Rerun

\* One run of the intersections script.
Spec == Init /\ [][Next]_vars

\* One run of any of the three scripts.
SpecScripts == InitScripts /\ [][NextScripts]_vars

\* Two runs of the intersections script on the same file.
SpecRerun == Init /\ [][NextRerun]_vars

(***************************************************************************)
(* What an input file says, read off its text: the blocks, their header    *)
(* lines, the data rows and the flag and symbol of each row.               *)
(***************************************************************************)
\* The fields of a line, and the field at a 0-based position ("" when the line
\* has no such field).
Fields(line) == Split(line, TAB)
FieldAt(line, k) == IF k + 1 <= Len(Fields(line)) THEN Fields(line)[k + 1] ELSE <<>>

\* A bare dataset-identifier line.
RefDatasetLine(line) == Len(Fields(line)) = 1 /\ StartsWith(Strip(line), GSE)

\* A line beginning with the header marker.
RefMarkerLine(line) == StartsWith(line, NAME_TAB)

\* The dataset-identifier line that opens the block line i lies in (0: none).
RefBlockStart(f, i) ==
    IF \E d \in 1..(i - 1) : RefDatasetLine(f[d])
    THEN CHOOSE d \in 1..(i - 1) :
             RefDatasetLine(f[d]) /\ \A e \in (d + 1)..(i - 1) : ~RefDatasetLine(f[e])
    ELSE 0

\* Line i is the header line of its block: the first marker line after the
\* block's dataset line (or after the start of the file).
RefIsHeader(f, i) ==
    /\ RefMarkerLine(f[i])
    /\ ~RefDatasetLine(f[i])
    /\ \A j \in (RefBlockStart(f, i) + 1)..(i - 1) : ~RefMarkerLine(f[j])

\* The header line in force at line i (0: none).
RefHeaderOf(f, i) ==
    IF \E h \in (RefBlockStart(f, i) + 1)..(i - 1) : RefIsHeader(f, h)
    THEN CHOOSE h \in (RefBlockStart(f, i) + 1)..(i - 1) : RefIsHeader(f, h)
    ELSE 0

\* The header line names the column.
RefNames(hline, name) ==
    \E k \in 1..Len(Fields(hline)) : Strip(Fields(hline)[k]) = name

\* The 0-based position of the first cell of the header line with that name.
RefColumn(hline, name) ==
    (CHOOSE k \in 1..Len(Fields(hline)) :
         /\ Strip(Fields(hline)[k]) = name
         /\ \A j \in 1..(k - 1) : Strip(Fields(hline)[j]) # name) - 1

\* A header line lacking a required column name.
RefLacksColumn(hline) == ~RefNames(hline, SYMBOL) \/ ~RefNames(hline, CORE_ENRICHMENT)

\* A header line with both required names and every cell before them named.
RefNamedHeader(hline) ==
    /\ RefNames(hline, SYMBOL)
    /\ RefNames(hline, CORE_ENRICHMENT)
    /\ \A k \in 1..(Max(RefColumn(hline, SYMBOL), RefColumn(hline, CORE_ENRICHMENT)) + 1) :
           Strip(Fields(hline)[k]) # <<>>

\* Line i is a data row of a block that has its header.
RefIsDataRow(f, i) ==
    /\ Strip(f[i]) # <<>>
    /\ ~RefDatasetLine(f[i])
    /\ RefBlockStart(f, i) > 0
    /\ RefHeaderOf(f, i) > 0

\* The dataset, the flag and the symbol of data row i.
RefDataset(f, i) == Strip(f[RefBlockStart(f, i)])
RefFlag(f, i)    == FieldAt(f[i], RefColumn(f[RefHeaderOf(f, i)], CORE_ENRICHMENT))
RefSymbol(f, i)  == Strip(FieldAt(f[i], RefColumn(f[RefHeaderOf(f, i)], SYMBOL)))

\* Data row i is flagged "yes" and carries a symbol.
RefQualifies(f, i) ==
    /\ RefIsDataRow(f, i)
    /\ Lower(Strip(RefFlag(f, i))) = YES
    /\ RefSymbol(f, i) # <<>>

\* The <<dataset, symbol>> pairs of the qualifying rows of the file.
RefFlagged(f) ==
    {<<RefDataset(f, i), RefSymbol(f, i)>> : i \in {j \in 1..Len(f) : RefQualifies(f, j)}}

\* The distinct gene symbols flagged "yes" in any block.
RefGenes(f) == {p[2] : p \in RefFlagged(f)}

\* A valid input file: every header line names both required columns, with no
\* unnamed column before them.
ValidFile(f) == \A i \in 1..Len(f) : RefIsHeader(f, i) => RefNamedHeader(f[i])

(***************************************************************************)
(* Properties                                                              *)
(***************************************************************************)
\* gene_to_datasets holds the result of invert_to_gene_counts(returned).
Inverted == pc \in {"inverted", "written"} \/ (pc = "exit" /\ exit_code = 0)

\* The run has ended with both CSV files written.
Written == pc = "exit" /\ exit_code = 0

\* The genes of a block->gene-set mapping.
GenesOf(d) == UNION {d[i][2] : i \in 1..Len(d)}

\* C1: invert_to_gene_counts is an exact inversion: the result has every key
\* once, its keys are exactly the genes of the input, its sets hold only dataset
\* ids of the input, and d is in result[g] if and only if g is in
\* datasets_to_genes[d].
C1_InvertExact ==
    Inverted =>
        /\ \A i, j \in 1..Len(gene_to_datasets) :
               gene_to_datasets[i][1] = gene_to_datasets[j][1] => i = j
        /\ Keys(gene_to_datasets) = GenesOf(returned)
        /\ GenesOf(gene_to_datasets) \subseteq Keys(returned)
        /\ \A d \in Keys(returned) : \A g \in Keys(gene_to_datasets) :
               d \in Get(gene_to_datasets, g) <=> g \in Get(returned, d)

\* C1 witness: two blocks were inverted, with one gene in both and one gene in
\* only one of them.
C1_Witness ==
    /\ pc = "inverted"
    /\ Len(returned) = 2
    /\ \E g \in Keys(gene_to_datasets) : Cardinality(Get(gene_to_datasets, g)) = 2
    /\ \E g \in Keys(gene_to_datasets) : Cardinality(Get(gene_to_datasets, g)) = 1

\* C2: for a valid input file, the full output has as many data rows as there
\* are distinct gene symbols flagged "yes" in any block of the file (none, and no
\* output, when no symbol is flagged).
C2_RowCount ==
    (pc = "exit" /\ ValidFile(file)) =>
        Len(full_csv.rows) = Cardinality(RefGenes(file))

\* C2 witness: a valid file was written out in which one symbol is flagged in
\* both blocks and there are fewer rows than qualifying input rows.
C2_Witness ==
    /\ Written
    /\ ValidFile(file)
    /\ Len(full_csv.rows) = 2
    /\ Cardinality(RefFlagged(file)) = 3
    /\ Cardinality({i \in 1..Len(file) : RefQualifies(file, i)}) = 4

\* The datasets_count and the datasets field of every written row agree with the
\* blocks the gene lies in and with each other.
CountMatches(csv) ==
    \A i \in 1..Len(csv.rows) :
        /\ csv.rows[i][2] =
               Cardinality({d \in Keys(returned) : csv.rows[i][1] \in Get(returned, d)})
        /\ csv.rows[i][2] = Len(Split(csv.rows[i][3], SEMI))

\* C3 (as claimed): for every written gene row, datasets_count is the number of
\* distinct dataset blocks containing the gene and the number of
\* semicolon-separated tokens of the datasets field, for every dataset id the
\* parser accepts.
C3_CountEqualsTokens == Written => CountMatches(full_csv) /\ CountMatches(max_csv)

\* C4: the full output is sorted by descending datasets_count, ties broken by
\* ascending gene symbol: consecutive rows (g1, c1), (g2, c2) have c1 > c2, or
\* c1 = c2 and g1 < g2.
C4_FullSorted ==
    Written =>
        \A i \in 1..(Len(full_csv.rows) - 1) :
            LET r1 == full_csv.rows[i]
                r2 == full_csv.rows[i + 1]
            IN  r1[2] > r2[2] \/ (r1[2] = r2[2] /\ StrLess(r1[1], r2[1]))

\* C4 witness: three rows written, a drop in count and a tie among them, from a
\* gene->datasets dict whose own order is not the sorted one.
C4_Witness ==
    /\ Written
    /\ Len(full_csv.rows) = 3
    /\ full_csv.rows[1][2] > full_csv.rows[2][2]
    /\ full_csv.rows[2][2] = full_csv.rows[3][2]
    /\ gene_to_datasets[1][1] # full_csv.rows[1][1]

\* The greatest datasets_count of a sequence of written rows (0 for none).
GreatestCount(rows) ==
    IF rows = <<>> THEN 0
    ELSE CHOOSE c \in {rows[i][2] : i \in 1..Len(rows)} :
             \A i \in 1..Len(rows) : rows[i][2] <= c

\* C5: the max-only output is the prefix of the full output made of the rows
\* with the globally maximal count: the same rows in the same order, every row
\* with that count and no other, and not empty unless the full output is.
C5_MaxOnlyIsPrefix ==
    Written =>
        /\ max_csv.header = full_csv.header
        /\ \E k \in 0..Len(full_csv.rows) :
               /\ max_csv.rows = SubSeq(full_csv.rows, 1, k)
               /\ \A i \in 1..Len(full_csv.rows) :
                      i <= k <=> full_csv.rows[i][2] = GreatestCount(full_csv.rows)
        /\ (full_csv.rows # <<>> => max_csv.rows # <<>>)

\* C5 witness: the max-only output holds two rows, and the full output holds a
\* further row with a smaller count.
C5_Witness ==
    /\ Written
    /\ Len(max_csv.rows) = 2
    /\ Len(full_csv.rows) = 3
    /\ full_csv.rows[3][2] < full_csv.rows[1][2]

\* The parser is about to read line pos of the file.
AtLine == pc = "parse" /\ pos <= Len(file)

\* C6: when a block's header line lacks a required column name, parsing raises
\* an error and does not proceed, in every script: the step that reads the line
\* ends the run with the exception, nothing is returned or written, and no step
\* follows a raised exception (no later line is processed).
C6_MissingColumnIsFatal ==
    [][/\ pc # "raised"
       /\ (AtLine /\ RefIsHeader(file, pos) /\ RefLacksColumn(file[pos])) =>
              /\ pc' = "raised"
              /\ error' = (IF script = "upset" THEN "RuntimeError" ELSE "ValueError")
              /\ returned' = <<>>
              /\ exit_code' = NoExit
              /\ ~outdir_exists'
              /\ full_csv' = NoCsv /\ max_csv' = NoCsv /\ plots' = {}]_vars

\* C6 witness: the UpSet script has raised on the header line of a block that
\* lacks a required name, with lines of the file still unread.
C6_Witness ==
    /\ pc = "raised"
    /\ script = "upset"
    /\ error = "RuntimeError"
    /\ pos > 1 /\ pos <= Len(file)
    /\ RefBlockStart(file, pos - 1) > 0
    /\ RefIsHeader(file, pos - 1)
    /\ RefLacksColumn(file[pos - 1])

\* C7: the intersections main returns 1 if no qualifying row was found (the
\* parser collected no gene; for a valid file: the file has no flagged row with
\* a symbol) and 0 otherwise, after both CSV files have been written.
C7_ExitCode ==
    pc = "exit" =>
        /\ exit_code \in {0, 1}
        /\ exit_code = 1 <=> GenesOf(locals.datasets_to_genes) = {}
        /\ ValidFile(file) => (exit_code = 1 <=> RefFlagged(file) = {})
        /\ exit_code = 0 => (full_csv.exists /\ max_csv.exists)

\* C7 witness: main has returned 1 on a file with a block, its header and a data
\* row that does not qualify.
C7_Witness ==
    /\ pc = "exit"
    /\ exit_code = 1
    /\ locals.datasets_to_genes # <<>>
    /\ \E i \in 1..Len(file) : RefIsDataRow(file, i) /\ ~RefQualifies(file, i)

\* C8: a second run on the unchanged input leaves both output files as the
\* first run left them, whatever order each run iterates its sets in.
C8_RerunIdentical ==
    (run = 2 /\ pc = "exit") => (full_csv = prev_full /\ max_csv = prev_max)

\* C8 witness: the second run has written its files, with two rows of equal count
\* and a gene->datasets dict whose order is not the order of the rows.
C8_Witness ==
    /\ run = 2
    /\ Written
    /\ Len(full_csv.rows) >= 2
    /\ full_csv.rows[1][2] = full_csv.rows[2][2]
    /\ gene_to_datasets[1][1] # full_csv.rows[1][1]

\* "A", "B", "C", "GSE1", "GSE2", "GSE1;GSE2"
GeneA == <<65>>
GeneB == <<66>>
GeneC == <<67>>
IdGSE1 == <<71, 83, 69, 49>>
IdGSE2 == <<71, 83, 69, 50>>
IdsGSE1GSE2 == <<71, 83, 69, 49, 59, 71, 83, 69, 50>>

\* C9: for the input with block GSE1 flagging {A, B} and block GSE2 flagging
\* {B, C}, the full output rows are (B, 2, GSE1;GSE2), (A, 1, GSE1),
\* (C, 1, GSE2) in this order and the max-only output holds the B row alone.
C9_Example ==
    (file = ExampleFile /\ pc = "exit") =>
        /\ exit_code = 0
        /\ full_csv.rows = <<<<GeneB, 2, IdsGSE1GSE2>>, <<GeneA, 1, IdGSE1>>,
                             <<GeneC, 1, IdGSE2>>>>
        /\ max_csv.rows = <<<<GeneB, 2, IdsGSE1GSE2>>>>

\* C9 witness: the run on the example input has ended.
C9_Witness == file = ExampleFile /\ pc = "exit" /\ full_csv.exists

\* C10: a data row of a block adds its trimmed symbol to the current block's
\* set if and only if its flag column (the field at the flag position the parser
\* holds for the block), trimmed and lower-cased, is "yes" and the trimmed symbol
\* is not empty; the keys and every other block's set stay as they were, and so
\* does every set when the row does not qualify.
C10_RowContribution ==
    [][(AtLine /\ RefIsDataRow(file, pos)) =>
           LET before == locals.datasets_to_genes
               after  == locals'.datasets_to_genes
               flag   == FieldAt(file[pos], locals.core_idx)
               symbol == Strip(FieldAt(file[pos], locals.symbol_idx))
               adds   == Lower(Strip(flag)) = YES /\ symbol # <<>>
           IN  /\ pc' = "parse"
               /\ Len(after) = Len(before)
               /\ \A i \in 1..Len(before) :
                      /\ after[i][1] = before[i][1]
                      /\ after[i][2] =
                             IF adds /\ before[i][1] = RefDataset(file, pos)
                             THEN before[i][2] \cup {symbol}
                             ELSE before[i][2]]_vars

\* C10 witness: the row "r\t B \tYES " has just been read in a block and its
\* trimmed symbol B is in the current block's set.
C10_Witness ==
    /\ pc = "parse"
    /\ pos > 1
    /\ file[pos - 1] = ROW_B
    /\ RefIsDataRow(file, pos - 1)
    /\ locals.current_dataset # None
    /\ GeneB \in Get(locals.datasets_to_genes, locals.current_dataset)

\* C11 (as claimed): the symbol and flag positions the parser holds for a block
\* are the tab-separated positions that the header cells named SYMBOL and
\* CORE ENRICHMENT occupy in the block's header line, so that parts[symbol_idx]
\* and parts[core_idx] of a data row are the fields under those cells, for every
\* header line (empty cells and padded cells included).
C11_ColumnsAtHeaderPositions ==
    (pc = "parse" /\ locals.header_cols # NoneCols) =>
        LET h == RefHeaderOf(file, pos)
        IN  /\ h > 0
            /\ locals.symbol_idx = RefColumn(file[h], SYMBOL)
            /\ locals.core_idx = RefColumn(file[h], CORE_ENRICHMENT)

\* C12: a line without a tab whose trimmed text begins with "GSE" starts a new
\* block and resets the header state (the block is current, its key exists, no
\* header and no column position is held, no set changes); and whatever line is
\* read, a set grows only for the accession of the most recent dataset line, and
\* only when a header line has been read since that line.
C12_BlockReset ==
    [][AtLine =>
           LET line   == file[pos]
               before == locals.datasets_to_genes
               after  == locals'.datasets_to_genes
           IN  /\ (RefDatasetLine(line) /\ Strip(line) # <<>>) =>
                      /\ pc' = "parse"
                      /\ locals'.current_dataset = Strip(line)
                      /\ locals'.header_cols = NoneCols
                      /\ locals'.symbol_idx = NoneIdx
                      /\ locals'.core_idx = NoneIdx
                      /\ HasKey(after, Strip(line))
                      /\ \A i \in 1..Len(before) : after[i] = before[i]
               /\ \A i \in 1..Len(before) :
                      after[i][2] # before[i][2] =>
                          /\ RefBlockStart(file, pos) > 0
                          /\ after[i][1] = RefDataset(file, pos)
                          /\ RefHeaderOf(file, pos) > 0]_vars

\* C12 witness: a dataset line has just been read after a header line, and the
\* flagged row that follows it has no header of its own block.
C12_Witness ==
    /\ pc = "parse"
    /\ pos > 2 /\ pos <= Len(file)
    /\ RefDatasetLine(file[pos - 1])
    /\ \E h \in 1..(pos - 2) : RefIsHeader(file, h) /\ RefNamedHeader(file[h])
    /\ locals.header_cols = NoneCols
    /\ locals.symbol_idx = NoneIdx
    /\ file[pos] = ROW_A

\* C13: a line that is not blank, not a dataset line and not a header line, read
\* while no dataset line has been seen or while the current block has no header
\* yet, is ignored: no local of the parser changes (no gene is added to any
\* block) and no error is raised.
C13_IgnoredBeforeHeader ==
    [][(/\ AtLine
        /\ Strip(file[pos]) # <<>>
        /\ ~RefDatasetLine(file[pos])
        /\ ~RefIsHeader(file, pos)
        /\ (RefBlockStart(file, pos) = 0 \/ RefHeaderOf(file, pos) = 0)) =>
           /\ locals' = locals
           /\ pc' = "parse"
           /\ error' = ""]_vars

\* C13 witness: the flagged row "r\tA\tYes" has just been read in a block that
\* has no header yet, and every block's set is empty.
C13_Witness ==
    /\ pc = "parse"
    /\ pos > 1
    /\ file[pos - 1] = ROW_A
    /\ RefBlockStart(file, pos - 1) > 0
    /\ RefHeaderOf(file, pos - 1) = 0
    /\ locals.current_dataset # None
    /\ GenesOf(locals.datasets_to_genes) = {}
    /\ error = ""

\* The fields of a line with the trailing empty fields removed.
TrimmedFields(line) ==
    LET fs == Fields(line)
        n  == IF \E k \in 1..Len(fs) : fs[k] # <<>>
              THEN CHOOSE k \in 1..Len(fs) :
                       fs[k] # <<>> /\ \A j \in (k + 1)..Len(fs) : fs[j] = <<>>
              ELSE 0
    IN  SubSeq(fs, 1, n)

\* Data row i is too short for the column positions the parser holds.
RowTooShort(line, symbol_idx, core_idx) ==
    \/ Len(TrimmedFields(line)) <= symbol_idx
    \/ Len(TrimmedFields(line)) <= core_idx

\* C14: a data row whose fields, trailing empty ones removed, do not reach both
\* column positions of its block is skipped: no error is raised and no local of
\* the parser changes (no set, not the header, not the current block), so the
\* rows after it are read in the same block with the same header; a row that
\* reaches both positions is never refused for its length (it is added when it
\* qualifies).
C14_ShortRowSkipped ==
    [][(AtLine /\ RefIsDataRow(file, pos)) =>
           IF RowTooShort(file[pos], locals.symbol_idx, locals.core_idx)
           THEN locals' = locals /\ pc' = "parse" /\ error' = ""
           ELSE LET flag   == FieldAt(file[pos], locals.core_idx)
                    symbol == Strip(FieldAt(file[pos], locals.symbol_idx))
                IN  (Lower(Strip(flag)) = YES /\ symbol # <<>>) =>
                        symbol \in Get(locals'.datasets_to_genes, RefDataset(file, pos))]_vars

\* C14 witness: in one block, the short row "r\tA\t" was skipped and the flagged
\* row after it has been added under the same header.
C14_Witness ==
    /\ pc = "parse"
    /\ pos > 4
    /\ file[pos - 2] = ROW_SHORT
    /\ RefIsDataRow(file, pos - 2)
    /\ file[pos - 1] = ROW_B_PLAIN
    /\ RefHeaderOf(file, pos - 1) = RefHeaderOf(file, pos - 2)
    /\ Get(locals.datasets_to_genes, locals.current_dataset) = {GeneB}

\* C15: the mapping the parser returns has no empty gene set: each of its keys
\* is a block the loop collected at least one gene for, with that gene set, and
\* every such block is a key; for a valid file, its keys are exactly the
\* accessions of the dataset lines with at least one flagged row that carries a
\* symbol.
C15_EmptyBlocksDropped ==
    pc = "parsed" =>
        LET d == locals.datasets_to_genes
        IN  /\ \A i \in 1..Len(returned) : returned[i][2] # {}
            /\ Keys(returned) = {d[i][1] : i \in {j \in 1..Len(d) : d[j][2] # {}}}
            /\ \A k \in Keys(returned) : Get(returned, k) = Get(d, k)
            /\ ValidFile(file) => Keys(returned) = {p[1] : p \in RefFlagged(file)}

\* C15 witness: the parser has returned after a file of two blocks, one of which
\* collected no gene, and its result holds the other block alone.
C15_Witness ==
    /\ pc = "parsed"
    /\ Len(locals.datasets_to_genes) = 2
    /\ Len(returned) = 1
    /\ \E i \in 1..2 : locals.datasets_to_genes[i][2] = {}
                       /\ ~HasKey(returned, locals.datasets_to_genes[i][1])

\* The keys of a dict are pairwise distinct.
DistinctKeys(d) == \A i, j \in 1..Len(d) : d[i][1] = d[j][1] => i = j

\* The dataset lines among the first n lines of the file.
DatasetLinesUpTo(f, n) == {k \in 1..n : k <= Len(f) /\ RefDatasetLine(f[k])}

\* C16: after any sequence of input lines the parser holds each accession once
\* and no more blocks than dataset lines read; a symbol read several times in a
\* block is in the block's set once, so that in the index the number of datasets
\* of a gene is the number of distinct accessions flagging it (valid files) and
\* never exceeds the number of blocks parsed.
C16_CountBounded ==
    /\ DistinctKeys(locals.datasets_to_genes)
    /\ Len(locals.datasets_to_genes) <= Cardinality(DatasetLinesUpTo(file, pos - 1))
    /\ Inverted =>
           /\ DistinctKeys(returned)
           /\ DistinctKeys(gene_to_datasets)
           /\ \A i \in 1..Len(gene_to_datasets) :
                  /\ Cardinality(gene_to_datasets[i][2]) <= Len(returned)
                  /\ Len(returned) <= Cardinality(DatasetLinesUpTo(file, Len(file)))
                  /\ ValidFile(file) =>
                         Cardinality(gene_to_datasets[i][2]) =
                             Cardinality({p \in RefFlagged(file) :
                                              p[2] = gene_to_datasets[i][1]})

\* C16 witness: the index is built from a file of two blocks of one accession
\* that flag the same gene in both rows of each block: the gene has one dataset.
C16_Witness ==
    /\ Inverted
    /\ Len(file) = 8
    /\ file[1] = file[5]
    /\ file[3] = ROW_A /\ file[4] = ROW_A /\ file[7] = ROW_A /\ file[8] = ROW_A
    /\ Len(gene_to_datasets) = 1
    /\ Cardinality(gene_to_datasets[1][2]) = 1

\* C17: the step that builds the index leaves the mapping the parser returned as
\* it was (keys, order and every gene set), and once the index is built neither
\* write_csvs nor any later step of the run changes the index or the mapping.
C17_AggregatorPure ==
    [][/\ pc = "parsed" => returned' = returned
       /\ Inverted => (gene_to_datasets' = gene_to_datasets /\ returned' = returned)]_vars

\* C17 witness: both files are written and main has returned, the index of two
\* or more genes and the parser's mapping still in place.
C17_Witness ==
    /\ Written
    /\ full_csv.exists
    /\ Len(gene_to_datasets) >= 2
    /\ Len(full_csv.rows) = Len(gene_to_datasets)
    /\ returned = NonEmptyItems(locals.datasets_to_genes)
    /\ returned # <<>>

\* A CSV record read back as a CSV reader of the same dialect reads it: the
\* fields of the line up to its terminator, split at the commas outside quotes,
\* a field that opens with a quote running to its closing quote with doubled
\* quotes read as one.
RECURSIVE CsvScan(_, _, _, _, _)
CsvScan(s, i, field, quoted, fields) ==
    IF i > Len(s) THEN Append(fields, field)
    ELSE IF quoted
    THEN IF s[i] = QUOTE
         THEN IF i < Len(s) /\ s[i + 1] = QUOTE
              THEN CsvScan(s, i + 2, Append(field, QUOTE), TRUE, fields)
              ELSE CsvScan(s, i + 1, field, FALSE, fields)
         ELSE CsvScan(s, i + 1, Append(field, s[i]), TRUE, fields)
    ELSE IF s[i] = COMMA THEN CsvScan(s, i + 1, <<>>, FALSE, Append(fields, field))
    ELSE IF s[i] = QUOTE /\ field = <<>> THEN CsvScan(s, i + 1, field, TRUE, fields)
    ELSE CsvScan(s, i + 1, Append(field, s[i]), FALSE, fields)

CsvColumns(line) ==
    LET n == Len(line)
        s == IF n >= 2 /\ line[n - 1] = CR /\ line[n] = LF
             THEN SubSeq(line, 1, n - 2) ELSE line
    IN  CsvScan(s, 1, <<>>, FALSE, <<>>)

\* "SYMBOL,datasets_count,datasets\r\n"
HEADER_LINE ==
    <<83, 89, 77, 66, 79, 76, 44, 100, 97, 116, 97, 115, 101, 116, 115, 95, 99,
      111, 117, 110, 116, 44, 100, 97, 116, 97, 115, 101, 116, 115, 13, 10>>

\* The decimal numeral of n.
Numeral(n) ==
    CHOOSE s \in UNION {[1..k -> 48..57] : k \in 1..2} :
        /\ (Len(s) = 1 /\ n = s[1] - 48) \/ (Len(s) = 2 /\ s[1] # 48
                                               /\ n = 10 * (s[1] - 48) + (s[2] - 48))

\* The elements of a set of strings in ascending order.
Ascending(S) ==
    CHOOSE p \in PermSeqs(S) : \A a, b \in 1..Len(p) : a < b => StrLess(p[a], p[b])

\* The file has the header line first and then one line per row, each of three
\* columns: a gene of the index, the size of its dataset set and the ids of the
\* set in ascending order with ";" between them.
ThreeColumns(csv) ==
    /\ csv.exists
    /\ Len(csv.text) = Len(csv.rows) + 1
    /\ csv.text[1] = HEADER_LINE
    /\ \A i \in 2..Len(csv.text) :
           LET cols == CsvColumns(csv.text[i])
           IN  /\ Len(cols) = 3
               /\ \E j \in 1..Len(gene_to_datasets) :
                      /\ cols[1] = gene_to_datasets[j][1]
                      /\ cols[2] = Numeral(Cardinality(gene_to_datasets[j][2]))
                      /\ cols[3] = Join(Ascending(gene_to_datasets[j][2]), <<SEMI>>)

\* C18: both output files begin with the line SYMBOL,datasets_count,datasets and
\* every line after it has exactly three columns: a gene symbol, its count and
\* its dataset ids in ascending order joined by semicolons.
C18_ThreeColumns == Written => (ThreeColumns(full_csv) /\ ThreeColumns(max_csv))

\* C18 witness: the files are written with a row whose symbol holds a comma and
\* a row whose symbol holds a double quote.
C18_Witness ==
    /\ Written
    /\ \E i \in 1..Len(full_csv.rows) : Contains(full_csv.rows[i][1], COMMA)
    /\ \E i \in 1..Len(full_csv.rows) : Contains(full_csv.rows[i][1], QUOTE)
    /\ Len(max_csv.text) >= 3

\* The parser of the running script has returned or raised.
ParserDone == pc = "parsed" \/ (pc = "raised" /\ returned = <<>>)

\* C19: on every file the copy of upset_full behaves as the copy of
\* intersections; when the intersections copy returns a non-empty mapping (every
\* header read names both columns and some gene is flagged, as on every valid
\* file with a flagged row), the upset copy returns the same mapping, keys in
\* the same order; the copies differ only in failing: where intersections and
\* upset_full raise ValueError or return the empty mapping, upset raises
\* RuntimeError.  The outcome of the running script is the outcome of its copy.
C19_CopiesEquivalent ==
    ParserDone =>
        LET pi   == ParseIntersections(file)
            pu   == ParseUpset(file)
            pf   == ParseUpsetFull(file)
            mine == IF script = "upset" THEN pu
                    ELSE IF script = "upset_full" THEN pf ELSE pi
            fail == [raised |-> "RuntimeError", result |-> <<>>]
        IN  /\ mine = [raised |-> error, result |-> returned]
            /\ pf = pi
            /\ pi.raised \in {"", "ValueError"}
            /\ (pi.raised = "" /\ pi.result # <<>>) => pu = pi
            /\ pi.raised = "ValueError" => pu = fail
            /\ (pi.raised = "" /\ pi.result = <<>>) => pu = fail
            /\ (ValidFile(file) /\ RefFlagged(file) # {}) =>
                   (pi.raised = "" /\ pi.result # <<>>)

\* C19 witness: the upset copy has returned a mapping of two blocks, one of them
\* with the row "r\t B \tYES " flagged.
C19_Witness ==
    /\ pc = "parsed"
    /\ script = "upset"
    /\ Len(returned) = 2
    /\ \E i \in 1..Len(file) : file[i] = ROW_B /\ RefQualifies(file, i)
    /\ returned = ParseIntersections(file).result

\* The dataset lines of the file that carry the accession k.
LinesOf(f, k) == {i \in 1..Len(f) : RefDatasetLine(f[i]) /\ Strip(f[i]) = k}

\* C20: blocks of one accession are merged.  A dataset line leaves the set its
\* accession already has as it is and never adds a second key for it; the
\* mapping returned for a valid file has each accession once, with the union of
\* the flagged symbols of all its blocks; and in the output a gene's count is
\* the number of distinct accessions flagging it, however many blocks of an
\* accession flag it.
C20_SameAccessionMerged ==
    /\ (AtLine /\ RefDatasetLine(file[pos])) =>
           LET d == locals.datasets_to_genes
               n == ScanLineOf(script, locals, file[pos]).datasets_to_genes
           IN  /\ DistinctKeys(n)
               /\ \A i \in 1..Len(d) : n[i] = d[i]
               /\ Len(n) = IF HasKey(d, Strip(file[pos])) THEN Len(d) ELSE Len(d) + 1
    /\ (pc = "parsed" /\ ValidFile(file)) =>
           /\ DistinctKeys(returned)
           /\ \A k \in Keys(returned) :
                  Get(returned, k) = {p[2] : p \in {q \in RefFlagged(file) : q[1] = k}}
    /\ (Written /\ ValidFile(file)) =>
           \A i \in 1..Len(full_csv.rows) :
               full_csv.rows[i][2] =
                   Cardinality({p[1] : p \in {q \in RefFlagged(file) :
                                                  q[2] = full_csv.rows[i][1]}})

\* C20 witness: the files are written for an input whose two blocks carry the
\* same accession, the first flagging A and B, the second flagging A: the
\* accession is one key holding both genes and A is counted once.
C20_Witness ==
    /\ Written
    /\ Len(file) = 8
    /\ Cardinality(LinesOf(file, Strip(file[1]))) = 2
    /\ Len(returned) = 1
    /\ returned[1][2] = {GeneA, GeneB}
    /\ GeneB \notin {RefSymbol(file, i) : i \in 7..8}
    /\ \E i \in 1..Len(full_csv.rows) :
           full_csv.rows[i][1] = GeneA /\ full_csv.rows[i][2] = 1

(***************************************************************************)
(* A second run on a rearranged input file                                 *)
(***************************************************************************)
\* The positions of the dataset lines of a file, in ascending order.
BlockStarts(f) ==
    LET S == {i \in 1..Len(f) : RefDatasetLine(f[i])}
    IN  CHOOSE p \in PermSeqs(S) : \A a, b \in 1..Len(p) : a < b => p[a] < p[b]

\* The last line of the block that starts at line i.
BlockEnd(f, i) ==
    IF \E j \in (i + 1)..Len(f) : RefDatasetLine(f[j])
    THEN (CHOOSE j \in (i + 1)..Len(f) :
              RefDatasetLine(f[j]) /\ \A e \in (i + 1)..(j - 1) : ~RefDatasetLine(f[e])) - 1
    ELSE Len(f)

RECURSIVE Flatten(_)
Flatten(ss) == IF ss = <<>> THEN <<>> ELSE Head(ss) \o Flatten(Tail(ss))

\* The files obtained by rearranging the whole blocks of f (dataset line, header
\* and rows together); the lines before the first dataset line stay in place.
BlockPermutations(f) ==
    LET starts == BlockStarts(f)
        n      == Len(starts)
        block(k) == SubSeq(f, starts[k], BlockEnd(f, starts[k]))
        before == IF n = 0 THEN f ELSE SubSeq(f, 1, starts[1] - 1)
    IN  {before \o Flatten([k \in 1..n |-> block(p[k])]) : p \in PermSeqs(1..n)}

\* The files obtained by rearranging the rows that follow the header line of one
\* block of f.
RowPermutations(f) ==
    UNION {LET e == BlockEnd(f, RefBlockStart(f, h))
               m == e - h
           IN  {SubSeq(f, 1, h) \o [k \in 1..m |-> f[h + p[k]]] \o SubSeq(f, e + 1, Len(f)) :
                    p \in PermSeqs(1..m)} :
           h \in {j \in 1..Len(f) : RefIsHeader(f, j) /\ RefBlockStart(f, j) > 0}}

Rearranged(f) == (BlockPermutations(f) \cup RowPermutations(f)) \ {f}

\* The intersections script is started again on a rearranged copy of the input
\* file, with the output directory as the first run left it.
RerunRearranged ==
    /\ pc = "exit"
    /\ script = "intersections"
    /\ run = 1
    /\ file' \in Rearranged(file)
    /\ run' = 2
    /\ prev_full' = full_csv
    /\ prev_max' = max_csv
    /\ pos' = 1
    /\ pc' = "parse"
    /\ locals' = InitLocals
    /\ returned' = <<>>
    /\ gene_to_datasets' = <<>>
    /\ exit_code' = NoExit
    /\ error' = ""
    /\ UNCHANGED <<script, outdir_exists, full_csv, max_csv, plots>>
    /\ UNCHANGED toolVars

NextRearranged ==
    \/ Next
    \/ RerunRearranged

\* A run of the intersections script followed by a run on a rearranged file.
SpecRearranged == Init /\ [][NextRearranged]_vars

\* C21: a run on a file whose whole blocks, or whose rows within a block, are
\* rearranged ends as the run on the original file ended, with the same exit
\* code and the same full and max-only files.
C21_OrderIndependent ==
    (run = 2 /\ pc = "exit") =>
        /\ full_csv = prev_full
        /\ max_csv = prev_max
        /\ exit_code = (IF prev_full.exists THEN 0 ELSE 1)

\* C21 witness: the second run has written its files for an input of two blocks
\* of different accessions, read in the other order than the first run read
\* them, with two genes of equal count.
C21_Witness ==
    /\ run = 2
    /\ Written
    /\ Len(returned) = 2
    /\ Len(file) = 8
    /\ file[1] # file[5]
    /\ returned[1][1] = Strip(file[1])
    /\ prev_full.exists
    /\ Len(full_csv.rows) >= 2
    /\ full_csv.rows[1][2] = full_csv.rows[2][2]
    /\ full_csv.rows[1][1] \in returned[2][2]
    /\ full_csv.rows[1][1] \notin returned[1][2]

\* The run has ended, by a return of main or by an exception.
Finished == pc \in {"exit", "raised"}

\* The whole file was scanned and no row qualified.
NothingQualified ==
    /\ pos > Len(file)
    /\ locals.raised = ""
    /\ GenesOf(locals.datasets_to_genes) = {}

\* C22: a run whose parse finds no qualifying row ends without output: the
\* intersections main returns 1, the upset script ends by RuntimeError and the
\* upset_full script by SystemExit with a message (exit status 1), and in each
\* case the output directory was not made and no CSV or plot file was written;
\* at no moment of any run is there output before the parser has returned a
\* non-empty mapping.
C22_NoOutputWhenNothingParsed ==
    /\ (outdir_exists \/ full_csv.exists \/ max_csv.exists \/ plots # {}) =>
           returned # <<>>
    /\ (pc = "parse" /\ ValidFile(file) /\ RefFlagged(file) = {}) =>
           GenesOf(locals.datasets_to_genes) = {}
    /\ (Finished /\ NothingQualified) =>
           /\ ~outdir_exists
           /\ ~full_csv.exists /\ ~max_csv.exists
           /\ plots = {}
           /\ script = "intersections" => (pc = "exit" /\ exit_code = 1 /\ error = "")
           /\ script = "upset" => (pc = "raised" /\ error = "RuntimeError")
           /\ script = "upset_full" =>
                  (pc = "exit" /\ exit_code = 1 /\ error = "SystemExit")

\* C22 witness: the upset_full script has ended on a file with a block, its
\* header and rows of which none qualifies.
C22_Witness ==
    /\ Finished
    /\ NothingQualified
    /\ script = "upset_full"
    /\ error = "SystemExit"
    /\ \E i \in 1..Len(file) : RefIsDataRow(file, i)
    /\ ~outdir_exists

\* The line about to be read gets past every "continue" of the loop body, so
\* that its fields are indexed with the two column positions.
RowIsIndexed ==
    /\ AtLine
    /\ ~IsBlankLine(file[pos])
    /\ ~IsDatasetLine(file[pos])
    /\ ~IsHeaderLine(locals, file[pos])
    /\ locals.current_dataset # None
    /\ locals.header_cols # NoneCols
    /\ ~IsShortRow(Parts(file[pos]), locals.symbol_idx, locals.core_idx)

\* C23: while lines are scanned, the symbol position is set exactly when a
\* header is recorded and so is the flag position; the current dataset, when
\* set, is a key of the block map; and a row that is indexed is indexed with
\* both positions set and inside the row's fields, for a current dataset that
\* is a key.
C23_ParserState ==
    pc = "parse" =>
        /\ locals.raised = ""
        /\ (locals.header_cols # NoneCols) <=> (locals.symbol_idx # NoneIdx)
        /\ (locals.header_cols # NoneCols) <=> (locals.core_idx # NoneIdx)
        /\ locals.current_dataset # None =>
               HasKey(locals.datasets_to_genes, locals.current_dataset)
        /\ RowIsIndexed =>
               /\ locals.symbol_idx \in 0..(Len(Parts(file[pos])) - 1)
               /\ locals.core_idx \in 0..(Len(Parts(file[pos])) - 1)
               /\ HasKey(locals.datasets_to_genes, locals.current_dataset)

\* C23 witness: the row "r\tC\tyes\t" with a trailing empty field is about to be
\* indexed, in the second block of the file.
C23_Witness ==
    /\ RowIsIndexed
    /\ file[pos] = ROW_C
    /\ Len(locals.datasets_to_genes) = 2
    /\ locals.core_idx = Len(Parts(file[pos])) - 1

(***************************************************************************)
(* The significance cutoffs                                                *)
(***************************************************************************)
\* A gene set with any statistics, before either script has looked at it.
InitSignificance ==
    /\ PipelineIdle
    /\ ConcatIdle /\ HtmlIdle /\ PngIdle
    /\ stats \in StatValues \X StatValues \X StatValues
    /\ significance = NotEvaluated
    /\ figure = ""

\* analyze_gsea_results.py: evaluate_significance(nes, fdr, pval)
EvaluateSignificance ==
    /\ significance = NotEvaluated
    /\ significance' = evaluate_significance(stats[1], stats[2], stats[3])
    /\ UNCHANGED <<pipelineVars, stats, figure, concatVars, html, png>>

\* create_comparison_figure.py: the badge of a gene set whose statistics were
\* read from the results table (floats, nan for an empty cell).
FigureBadge ==
    /\ figure = ""
    /\ \A k \in 1..3 : stats[k] # NoneStat
    /\ figure' = IF FigureSignificant(stats[2], stats[3]) THEN "SIG" ELSE "NS"
    /\ UNCHANGED <<pipelineVars, stats, significance, concatVars, html, png>>

NextSignificance ==
    \/ EvaluateSignificance
    \/ FigureBadge

SpecSignificance == InitSignificance /\ [][NextSignificance]_vars

\* C24: evaluate_significance returns nes_significant iff the NES is present and
\* |NES| >= 1.0, fdr_significant iff the FDR is present and <= 0.25,
\* pval_significant iff the p-value is present and <= 0.05, and
\* overall_significant equal to fdr_significant whatever the other two are.
C24_Cutoffs ==
    significance # NotEvaluated =>
        LET present(x) == x.kind # "None"
            nes        == stats[1]
            fdr        == stats[2]
            pval       == stats[3]
        IN  /\ significance[1] <=>
                   (present(nes) /\ nes.kind = "float"
                    /\ (nes.milli >= 1000 \/ nes.milli <= -1000))
            /\ significance[2] <=> (present(fdr) /\ fdr.kind = "float" /\ fdr.milli <= 250)
            /\ significance[3] <=> (present(pval) /\ pval.kind = "float" /\ pval.milli <= 50)
            /\ significance[4] = significance[2]

\* C24 witness: a gene set with FDR exactly 0.25, |NES| below 1.0 and a p-value
\* above 0.05 was evaluated: overall significant by its FDR alone.
C24_Witness ==
    /\ significance = <<FALSE, TRUE, FALSE, TRUE>>
    /\ stats[1] = Float(-999)
    /\ stats[2] = Float(250)
    /\ stats[3] = Float(51)

\* Both scripts have judged the gene set.
BothJudged == significance # NotEvaluated /\ figure # ""

\* C25: every gene set the comparison figure marks significant (FDR < 0.25 and
\* p-value < 0.05) is overall significant for evaluate_significance, whatever
\* its NES; and the converse fails: a gene set with FDR exactly 0.25, or with
\* FDR <= 0.25 and p-value >= 0.05, is overall significant and not marked
\* significant by the figure.
C25_FigureStricter ==
    BothJudged =>
        LET fdr  == stats[2]
            pval == stats[3]
        IN  /\ figure = "SIG" => significance[4]
            /\ (fdr.kind = "float" /\ fdr.milli = 250) =>
                   (significance[4] /\ figure = "NS")
            /\ (fdr.kind = "float" /\ fdr.milli <= 250
                /\ pval.kind = "float" /\ pval.milli >= 50) =>
                   (significance[4] /\ figure = "NS")

\* C25 witness: a gene set just inside both cutoffs of the figure, with an NES
\* below 1.0, is marked significant by the figure and is overall significant.
C25_Witness ==
    /\ BothJudged
    /\ figure = "SIG"
    /\ significance = <<FALSE, TRUE, TRUE, TRUE>>
    /\ stats[2] = Float(249)
    /\ stats[3] = Float(49)

(***************************************************************************)
(* concatenate_gsea_tsvs.py                                                *)
(***************************************************************************)
\* "*", "." and "_"
STAR == 42
DOT == 46
UNDERSCORE == 95

\* fnmatch of a name against a pattern whose only wildcard is "*".
RECURSIVE FnMatch(_, _)
FnMatch(s, p) ==
    IF p = <<>> THEN s = <<>>
    ELSE IF Head(p) = STAR
    THEN \E k \in 0..Len(s) : FnMatch(SubSeq(s, k + 1, Len(s)), Tail(p))
    ELSE s # <<>> /\ Head(s) = Head(p) /\ FnMatch(Tail(s), Tail(p))

\* glob.glob on one directory level: a leading "*" does not match a hidden name.
GlobMatch(name, pattern) ==
    /\ FnMatch(name, pattern)
    /\ ~(name # <<>> /\ Head(name) = DOT /\ pattern # <<>> /\ Head(pattern) # DOT)

\* content.endswith("\n")
EndsWith(s, c) == s # <<>> /\ s[Len(s)] = c

\* The named TSV of the folder of that name: its text, or NoFile.
TsvOf(t, name) == (CHOOSE d \in t : d.name = name).tsv

\* folders = sorted(glob.glob(str(BASE_DIR / folder_pattern)))
MatchingFolders(t, pattern) == Sorted({d.name : d \in {e \in t : GlobMatch(e.name, pattern)}})

\* Variant of WriteFolder: the blank line is written before every accession.
WriteFolderAlwaysSeparated(text, files_processed, name, content) ==
    text \o <<LF>> \o Split(name, UNDERSCORE)[1] \o <<LF>> \o content
         \o (IF ~EndsWith(content, LF) THEN <<LF>> ELSE <<>>)

\* What one folder with its TSV adds to the output: the blank line (not before
\* the first), the accession line, the content, and a newline if the content
\* does not end with one.
WriteFolder(text, files_processed, name, content) ==
    text \o (IF files_processed > 0 THEN <<LF>> ELSE <<>>)
         \o Split(name, UNDERSCORE)[1] \o <<LF>> \o content
         \o (IF ~EndsWith(content, LF) THEN <<LF>> ELSE <<>>)

\* "*_DOXSET_RINN.Gsea.*"
FOLDER_PATTERN ==
    <<42, 95, 68, 79, 88, 83, 69, 84, 95, 82, 73, 78, 78, 46, 71, 115, 101, 97, 46, 42>>

\* "GSE1_DOXSET_RINN.Gsea.1"
FOLDER_GSE1 ==
    <<71, 83, 69, 49, 95, 68, 79, 88, 83, 69, 84, 95, 82, 73, 78, 78, 46, 71, 115, 101,
    97, 46, 49>>

\* "GSE10_DOXSET_RINN.Gsea.2"
FOLDER_GSE10 ==
    <<71, 83, 69, 49, 48, 95, 68, 79, 88, 83, 69, 84, 95, 82, 73, 78, 78, 46, 71, 115,
    101, 97, 46, 50>>

\* "GSE2_DOXSET_RINN.Gsea.3"
FOLDER_GSE2 ==
    <<71, 83, 69, 50, 95, 68, 79, 88, 83, 69, 84, 95, 82, 73, 78, 78, 46, 71, 115, 101,
    97, 46, 51>>

\* "GSE1_b_DOXSET_RINN.Gsea.5": a second folder of accession GSE1
FOLDER_GSE1_AGAIN ==
    <<71, 83, 69, 49, 95, 98, 95, 68, 79, 88, 83, 69, 84, 95, 82, 73, 78, 78, 46, 71,
    115, 101, 97, 46, 53>>

\* "GSE3_Upregulated.Gsea.4": a folder the pattern does not match
FOLDER_OTHER ==
    <<71, 83, 69, 51, 95, 85, 112, 114, 101, 103, 117, 108, 97, 116, 101, 100, 46, 71,
    115, 101, 97, 46, 52>>

\* "NAME\tSYMBOL\tCORE ENRICHMENT\nr\tA\tYes\n"
TSV_A ==
    <<78, 65, 77, 69, 9, 83, 89, 77, 66, 79, 76, 9, 67, 79, 82, 69, 32, 69, 78, 82, 73,
    67, 72, 77, 69, 78, 84, 10, 114, 9, 65, 9, 89, 101, 115, 10>>

\* "NAME\tSYMBOL\tCORE ENRICHMENT\nr\tB\tYes": no newline at the end
TSV_B_OPEN ==
    <<78, 65, 77, 69, 9, 83, 89, 77, 66, 79, 76, 9, 67, 79, 82, 69, 32, 69, 78, 82, 73,
    67, 72, 77, 69, 78, 84, 10, 114, 9, 66, 9, 89, 101, 115>>

\* "NAME\tSYMBOL\tCORE ENRICHMENT\nr\tA\tNo\nr\tC\tyes\n"
TSV_AC ==
    <<78, 65, 77, 69, 9, 83, 89, 77, 66, 79, 76, 9, 67, 79, 82, 69, 32, 69, 78, 82, 73,
    67, 72, 77, 69, 78, 84, 10, 114, 9, 65, 9, 78, 111, 10, 114, 9, 67, 9, 121, 101,
    115, 10>>

\* "NAME\t\tSYMBOL\tCORE ENRICHMENT\nr\t\tC\tYes\n": a header with an empty cell
TSV_GAP ==
    <<78, 65, 77, 69, 9, 9, 83, 89, 77, 66, 79, 76, 9, 67, 79, 82, 69, 32, 69, 78, 82,
    73, 67, 72, 77, 69, 78, 84, 10, 114, 9, 9, 67, 9, 89, 101, 115, 10>>

\* "old\n": what an earlier run left in the output file
TSV_OLD ==
    <<111, 108, 100, 10>>

\* ""
TSV_EMPTY == <<>>

\* The folder trees tried: at most MaxFolders folders, each with or without its
\* TSV.
MaxFolders == 3
FolderNames == {FOLDER_GSE1, FOLDER_GSE10, FOLDER_GSE2, FOLDER_GSE1_AGAIN, FOLDER_OTHER}
Contents == {NoFile, TSV_A, TSV_B_OPEN, TSV_AC, TSV_GAP, TSV_EMPTY}
Trees ==
    UNION {{{[name |-> n, tsv |-> c[n]] : n \in N} : c \in [N -> Contents]} :
               N \in {M \in SUBSET FolderNames : Cardinality(M) <= MaxFolders}}

\* concatenate_tsv_files("DOXSET_RINN.tsv", "*_DOXSET_RINN.Gsea.*", ...) is
\* called on a tree, the output file absent or left by an earlier run ("before"
\* keeps that state of the file for reference).
InitConcat ==
    /\ PipelineIdle
    /\ SignificanceIdle /\ HtmlIdle /\ PngIdle
    /\ tree \in Trees
    /\ out_file \in {NoFile, TSV_OLD}
    /\ cat = [pc |-> "start", folders |-> <<>>, i |-> 1, files_processed |-> 0,
              before |-> out_file]

\* The folders are listed; without any the function returns, otherwise the
\* output file is opened for writing, which creates or empties it.
CatGlob ==
    /\ cat.pc = "start"
    /\ LET folders == MatchingFolders(tree, FOLDER_PATTERN)
       IN  IF folders = <<>>
           THEN /\ cat' = [cat EXCEPT !.pc = "done"]
                /\ UNCHANGED out_file
           ELSE /\ cat' = [cat EXCEPT !.pc = "loop", !.folders = folders]
                /\ out_file' = <<>>
    /\ UNCHANGED <<pipelineVars, significanceVars, tree, html, png>>

\* "for folder in folders": one folder is handled.
CatFolder ==
    /\ cat.pc = "loop"
    /\ cat.i <= Len(cat.folders)
    /\ LET name    == cat.folders[cat.i]
           content == TsvOf(tree, name)
       IN  IF content # NoFile
           THEN /\ out_file' = WriteFolder(out_file, cat.files_processed, name, content)
                /\ cat' = [cat EXCEPT !.i = cat.i + 1,
                                      !.files_processed = cat.files_processed + 1]
           ELSE /\ cat' = [cat EXCEPT !.i = cat.i + 1]
                /\ UNCHANGED out_file
    /\ UNCHANGED <<pipelineVars, significanceVars, tree, html, png>>

\* The loop is over: the file is closed and the function returns.
CatReturn ==
    /\ cat.pc = "loop"
    /\ cat.i > Len(cat.folders)
    /\ cat' = [cat EXCEPT !.pc = "done"]
    /\ UNCHANGED <<pipelineVars, significanceVars, tree, out_file, html, png>>

NextConcat ==
    \/ CatGlob
    \/ CatFolder
    \/ CatReturn

SpecConcat == InitConcat /\ [][NextConcat]_vars

\* A folder name holds "_DOXSET_RINN.Gsea." and is not hidden.
RefMatching(name) ==
    /\ \E i \in 0..(Len(name) - 18) :
           SubSeq(name, i + 1, i + 18) = SubSeq(FOLDER_PATTERN, 2, 19)
    /\ name[1] # 46

\* The folder name up to its first underscore.
RefAccession(name) ==
    IF \E j \in 1..Len(name) : name[j] = 95
    THEN SubSeq(name, 1, (CHOOSE j \in 1..Len(name) :
                              name[j] = 95 /\ \A k \in 1..(j - 1) : name[k] # 95) - 1)
    ELSE name

\* The matching folders of the tree that hold the TSV, in ascending order.
RefSources(t) ==
    Ascending({d.name : d \in {e \in t : RefMatching(e.name) /\ e.tsv # NoFile}})

\* The text the claim describes for a tree.
RefConcatenation(t) ==
    LET names == RefSources(t)
        piece(k) ==
            (IF k = 1 THEN <<>> ELSE <<10>>)
                \o RefAccession(names[k]) \o <<10>> \o TsvOf(t, names[k])
                \o (IF TsvOf(t, names[k]) # <<>>
                       /\ TsvOf(t, names[k])[Len(TsvOf(t, names[k]))] = 10
                    THEN <<>> ELSE <<10>>)
    IN  Flatten([k \in 1..Len(names) |-> piece(k)])

\* C26: when concatenate_tsv_files has returned, if no folder matched the
\* pattern the output file is as it was before the call (absent, or with its
\* old text); otherwise the file holds, for each matching folder with the named
\* TSV, in ascending order of the folders, a blank line (not before the first
\* one written), the accession line (the folder name up to its first
\* underscore) and the content of the TSV ended by a newline, and nothing for a
\* folder without the TSV.
C26_Concatenation ==
    cat.pc = "done" =>
        IF \E d \in tree : RefMatching(d.name)
        THEN out_file = RefConcatenation(tree)
        ELSE out_file = cat.before

\* C26 witness: the function has returned for three matching folders, the first
\* of which lacks the TSV and another has a TSV without a final newline; the
\* output file existed before.
C26_Witness ==
    /\ cat.pc = "done"
    /\ Len(cat.folders) = 3
    /\ cat.files_processed = 2
    /\ TsvOf(tree, cat.folders[1]) = NoFile
    /\ TsvOf(tree, cat.folders[2]) = TSV_B_OPEN
    /\ cat.before = TSV_OLD

(***************************************************************************)
(* The concatenated file read by the intersections script                  *)
(***************************************************************************)
\* The lines "for raw_line in f" yields for a file of that text, each without
\* its newline.
TextLines(text) ==
    IF text = <<>> THEN <<>>
    ELSE LET pieces == Split(text, LF)
         IN  IF EndsWith(text, LF) THEN SubSeq(pieces, 1, Len(pieces) - 1) ELSE pieces

\* The intersections script is started on the file concatenate_tsv_files wrote.
ParseOutput ==
    /\ cat.pc = "done"
    /\ out_file # NoFile
    /\ pc = "idle"
    /\ file' = TextLines(out_file)
    /\ pc' = "parse"
    /\ UNCHANGED <<script, pos, locals, returned, gene_to_datasets, outdir_exists,
                   full_csv, max_csv, plots, exit_code, error, run, prev_full, prev_max>>
    /\ UNCHANGED toolVars

NextRoundTrip ==
    \/ NextConcat
    \/ ParseOutput
    \/ Next

SpecRoundTrip == InitConcat /\ [][NextRoundTrip]_vars

\* The lines of a source TSV.
RefLines(text) ==
    LET pieces == Split(text, 10)
    IN  IF text = <<>> THEN <<>>
        ELSE IF text[Len(text)] = 10 THEN SubSeq(pieces, 1, Len(pieces) - 1) ELSE pieces

\* A source TSV of the kind the round trip is claimed for: its first line is a
\* "NAME\t" header naming SYMBOL and CORE ENRICHMENT and every row has a tab.
RefSourceOk(text) ==
    LET ls == RefLines(text)
    IN  /\ ls # <<>>
        /\ RefMarkerLine(ls[1])
        /\ RefNames(ls[1], SYMBOL)
        /\ RefNames(ls[1], CORE_ENRICHMENT)
        /\ \A i \in 2..Len(ls) : Len(Fields(ls[i])) > 1

\* The symbols a source TSV flags: the trimmed non-empty SYMBOL cells of the
\* rows whose CORE ENRICHMENT cell, trimmed and lower-cased, is "yes".
RefSourceFlagged(text) ==
    LET ls  == RefLines(text)
        sym == RefColumn(ls[1], SYMBOL)
        cor == RefColumn(ls[1], CORE_ENRICHMENT)
    IN  {Strip(FieldAt(ls[i], sym)) :
            i \in {j \in 2..Len(ls) :
                      /\ Lower(Strip(FieldAt(ls[j], cor))) = YES
                      /\ Strip(FieldAt(ls[j], sym)) # <<>>}}

\* The tree is of the kind the round trip is claimed for.
RefTreeOk(t) ==
    LET names == RefSources(t)
    IN  /\ names # <<>>
        /\ \A k \in 1..Len(names) :
               /\ RefSourceOk(TsvOf(t, names[k]))
               /\ StartsWith(RefAccession(names[k]), GSE)
        /\ \A k, l \in 1..Len(names) :
               RefAccession(names[k]) = RefAccession(names[l]) => k = l

\* C27 (as claimed): for source TSVs that each start with a "NAME\t" header
\* naming SYMBOL and CORE ENRICHMENT and whose rows all have a tab, in folders
\* of distinct GSE accessions, the parser applied to the concatenated file
\* returns for each accession exactly the symbols its source file flags (the
\* accessions whose file flags none are absent).
C27_RoundTrip ==
    (pc = "parsed" /\ cat.pc = "done" /\ RefTreeOk(tree)) =>
        LET names == RefSources(tree)
        IN  /\ \A k \in 1..Len(names) :
                   LET flagged == RefSourceFlagged(TsvOf(tree, names[k]))
                       acc     == RefAccession(names[k])
                   IN  IF flagged = {} THEN ~HasKey(returned, acc)
                       ELSE HasKey(returned, acc) /\ Get(returned, acc) = flagged
            /\ \A key \in Keys(returned) :
                   \E k \in 1..Len(names) : key = RefAccession(names[k])

\* ---------------------------------------------------------------------------
\* annotate_enplots.py: find_html_file
\* ---------------------------------------------------------------------------

\* "/" of a joined path
SLASH == 47

\* "DOXSET_RINN"
WORD_DOXSET_RINN == <<68, 79, 88, 83, 69, 84, 95, 82, 73, 78, 78>>

\* "DOXSET_1"
WORD_DOXSET_1 == <<68, 79, 88, 83, 69, 84, 95, 49>>

\* "DOXSET"
WORD_DOXSET == <<68, 79, 88, 83, 69, 84>>

\* "Upregulated"
WORD_UPREGULATED == <<85, 112, 114, 101, 103, 117, 108, 97, 116, 101, 100>>

\* "Downregulated"
WORD_DOWNREGULATED == <<68, 111, 119, 110, 114, 101, 103, 117, 108, 97, 116, 101, 100>>

\* "Diff_of_Classes"
WORD_DIFF_OF_CLASSES ==
    <<68, 105, 102, 102, 95, 111, 102, 95, 67, 108, 97, 115, 115, 101, 115>>

\* "_DOXSET_RINN.Gsea.*"
PATTERN_DOXSET_RINN ==
    <<95, 68, 79, 88, 83, 69, 84, 95, 82, 73, 78, 78, 46, 71, 115, 101, 97, 46, 42>>

\* "_DOXSET_1.Gsea.*"
PATTERN_DOXSET_1 == <<95, 68, 79, 88, 83, 69, 84, 95, 49, 46, 71, 115, 101, 97, 46, 42>>

\* "_Upregulated_Diff_of_Classes.Gsea.*"
PATTERN_UP_DIFF ==
    <<95, 85, 112, 114, 101, 103, 117, 108, 97, 116, 101, 100, 95, 68, 105, 102, 102,
    95, 111, 102, 95, 67, 108, 97, 115, 115, 101, 115, 46, 71, 115, 101, 97, 46, 42>>

\* "_Upregulated.Gsea.*"
PATTERN_UP ==
    <<95, 85, 112, 114, 101, 103, 117, 108, 97, 116, 101, 100, 46, 71, 115, 101, 97, 46,
    42>>

\* "_Downregulated_Diff_of_Classes.Gsea.*"
PATTERN_DOWN_DIFF ==
    <<95, 68, 111, 119, 110, 114, 101, 103, 117, 108, 97, 116, 101, 100, 95, 68, 105,
    102, 102, 95, 111, 102, 95, 67, 108, 97, 115, 115, 101, 115, 46, 71, 115, 101, 97,
    46, 42>>

\* "_Downregulated.Gsea.*"
PATTERN_DOWN ==
    <<95, 68, 111, 119, 110, 114, 101, 103, 117, 108, 97, 116, 101, 100, 46, 71, 115,
    101, 97, 46, 42>>

\* ".html"
DOT_HTML == <<46, 104, 116, 109, 108>>

\* "GSE1"
GSE_1 == <<71, 83, 69, 49>>

\* "GSE10"
GSE_10 == <<71, 83, 69, 49, 48>>

\* "UP_GENES"
GENESET_UP == <<85, 80, 95, 71, 69, 78, 69, 83>>

\* "DOX_GENES"
GENESET_DOX == <<68, 79, 88, 95, 71, 69, 78, 69, 83>>

\* "UP_GENES.html"
UP_GENES_HTML == <<85, 80, 95, 71, 69, 78, 69, 83, 46, 104, 116, 109, 108>>

\* "Upregulated_Diff_of_Classes"
RT_UP_DIFF ==
    <<85, 112, 114, 101, 103, 117, 108, 97, 116, 101, 100, 95, 68, 105, 102, 102, 95,
    111, 102, 95, 67, 108, 97, 115, 115, 101, 115>>

\* "Downregulated_Diff_of_Classes"
RT_DOWN_DIFF ==
    <<68, 111, 119, 110, 114, 101, 103, 117, 108, 97, 116, 101, 100, 95, 68, 105, 102,
    102, 95, 111, 102, 95, 67, 108, 97, 115, 115, 101, 115>>

\* "Other"
RT_OTHER == <<79, 116, 104, 101, 114>>

\* "Upregulated_DOXSET"
RT_UP_DOXSET ==
    <<85, 112, 114, 101, 103, 117, 108, 97, 116, 101, 100, 95, 68, 79, 88, 83, 69, 84>>

\* "Downregulated_Upregulated"
RT_DOWN_UP ==
    <<68, 111, 119, 110, 114, 101, 103, 117, 108, 97, 116, 101, 100, 95, 85, 112, 114,
    101, 103, 117, 108, 97, 116, 101, 100>>

\* "Upregulated_DOXSET_RINN"
RT_RINN_UP ==
    <<85, 112, 114, 101, 103, 117, 108, 97, 116, 101, 100, 95, 68, 79, 88, 83, 69, 84,
    95, 82, 73, 78, 78>>

\* "GSE1_DOXSET_RINN.Gsea.1"
DIR_RINN ==
    <<71, 83, 69, 49, 95, 68, 79, 88, 83, 69, 84, 95, 82, 73, 78, 78, 46, 71, 115, 101,
    97, 46, 49>>

\* "GSE1_DOXSET_RINN.Gsea.2"
DIR_RINN_2 ==
    <<71, 83, 69, 49, 95, 68, 79, 88, 83, 69, 84, 95, 82, 73, 78, 78, 46, 71, 115, 101,
    97, 46, 50>>

\* "GSE1_DOXSET_1.Gsea.1"
DIR_DOX1 ==
    <<71, 83, 69, 49, 95, 68, 79, 88, 83, 69, 84, 95, 49, 46, 71, 115, 101, 97, 46, 49>>

\* "GSE1_Upregulated.Gsea.1"
DIR_UP ==
    <<71, 83, 69, 49, 95, 85, 112, 114, 101, 103, 117, 108, 97, 116, 101, 100, 46, 71,
    115, 101, 97, 46, 49>>

\* "GSE1_Upregulated_Diff_of_Classes.Gsea.1"
DIR_UP_DIFF ==
    <<71, 83, 69, 49, 95, 85, 112, 114, 101, 103, 117, 108, 97, 116, 101, 100, 95, 68,
    105, 102, 102, 95, 111, 102, 95, 67, 108, 97, 115, 115, 101, 115, 46, 71, 115, 101,
    97, 46, 49>>

\* "GSE1_Downregulated.Gsea.1"
DIR_DOWN ==
    <<71, 83, 69, 49, 95, 68, 111, 119, 110, 114, 101, 103, 117, 108, 97, 116, 101, 100,
    46, 71, 115, 101, 97, 46, 49>>

\* "GSE1_Downregulated_Diff_of_Classes.Gsea.1"
DIR_DOWN_DIFF ==
    <<71, 83, 69, 49, 95, 68, 111, 119, 110, 114, 101, 103, 117, 108, 97, 116, 101, 100,
    95, 68, 105, 102, 102, 95, 111, 102, 95, 67, 108, 97, 115, 115, 101, 115, 46, 71,
    115, 101, 97, 46, 49>>

\* "GSE10_DOXSET_RINN.Gsea.1"
DIR_RINN_10 ==
    <<71, 83, 69, 49, 48, 95, 68, 79, 88, 83, 69, 84, 95, 82, 73, 78, 78, 46, 71, 115,
    101, 97, 46, 49>>

\* Python's "word in text" on strings.
In(word, text) ==
    \E i \in 0..(Len(text) - Len(word)) : SubSeq(text, i + 1, i + Len(word)) = word

\* Variant of FolderPattern: the DOXSET test comes before the DOXSET_RINN test.
FolderPatternDoxsetFirst(gse_accession, regulation_type) ==
    IF In(WORD_DOXSET_1, regulation_type) \/ In(WORD_DOXSET, regulation_type)
    THEN gse_accession \o PATTERN_DOXSET_1
    ELSE IF In(WORD_DOXSET_RINN, regulation_type)
    THEN gse_accession \o PATTERN_DOXSET_RINN
    ELSE IF In(WORD_UPREGULATED, regulation_type)
    THEN IF In(WORD_DIFF_OF_CLASSES, regulation_type)
         THEN gse_accession \o PATTERN_UP_DIFF
         ELSE gse_accession \o PATTERN_UP
    ELSE IF In(WORD_DOWNREGULATED, regulation_type)
    THEN IF In(WORD_DIFF_OF_CLASSES, regulation_type)
         THEN gse_accession \o PATTERN_DOWN_DIFF
         ELSE gse_accession \o PATTERN_DOWN
    ELSE None

\* The if/elif chain of find_html_file: the folder pattern of a regulation
\* type, or None where the function returns None at once.
FolderPattern(gse_accession, regulation_type) ==
    IF In(WORD_DOXSET_RINN, regulation_type)
    THEN gse_accession \o PATTERN_DOXSET_RINN
    ELSE IF In(WORD_DOXSET_1, regulation_type) \/ In(WORD_DOXSET, regulation_type)
    THEN gse_accession \o PATTERN_DOXSET_1
    ELSE IF In(WORD_UPREGULATED, regulation_type)
    THEN IF In(WORD_DIFF_OF_CLASSES, regulation_type)
         THEN gse_accession \o PATTERN_UP_DIFF
         ELSE gse_accession \o PATTERN_UP
    ELSE IF In(WORD_DOWNREGULATED, regulation_type)
    THEN IF In(WORD_DIFF_OF_CLASSES, regulation_type)
         THEN gse_accession \o PATTERN_DOWN_DIFF
         ELSE gse_accession \o PATTERN_DOWN
    ELSE None

\* dir_path / html_filename
JoinPath(dir_path, filename) == dir_path \o <<SLASH>> \o filename

\* The files of the directory of that name.
FilesOf(dirs, name) == (CHOOSE d \in dirs : d.name = name).files

\* Most directories under BASE_DIR in a checked tree.
MaxDirs == 3

\* Directory names under BASE_DIR.
DirNames ==
    {DIR_RINN, DIR_RINN_2, DIR_DOX1, DIR_UP, DIR_UP_DIFF, DIR_DOWN, DIR_DOWN_DIFF, DIR_RINN_10}

\* The trees under BASE_DIR: up to MaxDirs directories, each with or without
\* the report of the UP_GENES gene set.
DirTrees ==
    UNION {[names -> {{}, {UP_GENES_HTML}}] : names \in {n \in SUBSET DirNames : Cardinality(n) <= MaxDirs}}

\* The tree of a choice of names and files, as a set of directories.
DirsOf(t) == {[name |-> n, files |-> t[n]] : n \in DOMAIN t}

\* The regulation types a file name may carry.
RegulationTypes ==
    {WORD_DOXSET_RINN, WORD_DOXSET_1, WORD_DOXSET, WORD_UPREGULATED, WORD_DOWNREGULATED,
     WORD_DIFF_OF_CLASSES, RT_UP_DIFF, RT_DOWN_DIFF, RT_OTHER, RT_UP_DOXSET, RT_DOWN_UP,
     RT_RINN_UP}

\* find_html_file(gse_accession, regulation_type, geneset) is called on a tree.
InitHtml ==
    /\ PipelineIdle
    /\ SignificanceIdle /\ ConcatIdle /\ PngIdle
    /\ \E gse \in {GSE_1, GSE_10}, rt \in RegulationTypes,
          g \in {GENESET_UP, GENESET_DOX}, t \in DirTrees :
           html = [pc |-> "start", gse_accession |-> gse, regulation_type |-> rt,
                   geneset |-> g, dirs |-> DirsOf(t), folder_pattern |-> None,
                   dir_path |-> None, result |-> None]

\* The regulation type is mapped to a folder pattern; with none the function
\* returns None.
HtmlRoute ==
    /\ html.pc = "start"
    /\ LET p == FolderPattern(html.gse_accession, html.regulation_type)
       IN  IF p = None
           THEN html' = [html EXCEPT !.pc = "done", !.result = None]
           ELSE html' = [html EXCEPT !.pc = "glob", !.folder_pattern = p]
    /\ UNCHANGED <<pipelineVars, significanceVars, concatVars, png>>

\* matching_dirs = glob.glob(...): without a match the function returns None,
\* otherwise it takes matching_dirs[0]; glob lists in the directory's own order,
\* so that is any of the matching directories.
HtmlGlob ==
    /\ html.pc = "glob"
    /\ LET matching_dirs == {d \in html.dirs : GlobMatch(d.name, html.folder_pattern)}
       IN  IF matching_dirs = {}
           THEN html' = [html EXCEPT !.pc = "done", !.result = None]
           ELSE \E d \in matching_dirs :
                    html' = [html EXCEPT !.pc = "exists", !.dir_path = d.name]
    /\ UNCHANGED <<pipelineVars, significanceVars, concatVars, png>>

\* html_path.exists(): the path is returned if the file is there, else None.
HtmlExists ==
    /\ html.pc = "exists"
    /\ LET html_filename == html.geneset \o DOT_HTML
       IN  IF html_filename \in FilesOf(html.dirs, html.dir_path)
           THEN html' = [html EXCEPT !.pc = "done",
                                     !.result = JoinPath(html.dir_path, html_filename)]
           ELSE html' = [html EXCEPT !.pc = "done", !.result = None]
    /\ UNCHANGED <<pipelineVars, significanceVars, concatVars, png>>

NextHtml == HtmlRoute \/ HtmlGlob \/ HtmlExists

SpecHtml == InitHtml /\ [][NextHtml]_vars

\* Reference reading of the routing: the word occurs somewhere in the text.
RefHas(text, word) == \E i \in 1..Len(text) : StartsWith(SubSeq(text, i, Len(text)), word)

\* The pattern tail the claim names for a regulation type, or None.
RefRoute(rt) ==
    CASE RefHas(rt, WORD_DOXSET_RINN) -> PATTERN_DOXSET_RINN
      [] ~RefHas(rt, WORD_DOXSET_RINN) /\ RefHas(rt, WORD_DOXSET) -> PATTERN_DOXSET_1
      [] ~RefHas(rt, WORD_DOXSET) /\ RefHas(rt, WORD_UPREGULATED) ->
             IF RefHas(rt, WORD_DIFF_OF_CLASSES) THEN PATTERN_UP_DIFF ELSE PATTERN_UP
      [] ~RefHas(rt, WORD_DOXSET) /\ ~RefHas(rt, WORD_UPREGULATED)
             /\ RefHas(rt, WORD_DOWNREGULATED) ->
             IF RefHas(rt, WORD_DIFF_OF_CLASSES) THEN PATTERN_DOWN_DIFF ELSE PATTERN_DOWN
      [] OTHER -> None

\* The directories a routed pattern names: those whose name begins with the
\* accession and the pattern up to its "*".
RefRouted(dirs, gse, tail) ==
    {d \in dirs : StartsWith(d.name, gse \o SubSeq(tail, 1, Len(tail) - 1))}

\* C28: find_html_file routes the regulation type to one folder pattern by the
\* first match in the order DOXSET_RINN, DOXSET_1/DOXSET, Upregulated,
\* Downregulated (the last two taking the _Diff_of_Classes folder exactly when
\* the type contains "Diff_of_Classes"); it returns None for any other type, when
\* no folder matches, or when the gene set's HTML file is not in the folder
\* taken, and otherwise the path of that file; a type containing DOXSET_RINN is
\* never routed to the DOXSET_1 folder.
C28_Routing ==
    html.pc = "done" =>
        LET gse == html.gse_accession
            tail == RefRoute(html.regulation_type)
            routed == IF tail = None THEN {} ELSE RefRouted(html.dirs, gse, tail)
            report == html.geneset \o DOT_HTML
        IN  /\ html.folder_pattern = (IF tail = None THEN None ELSE gse \o tail)
            /\ RefHas(html.regulation_type, WORD_DOXSET_RINN)
                   => html.folder_pattern # gse \o PATTERN_DOXSET_1
            /\ routed = {} => html.result = None /\ html.dir_path = None
            /\ routed # {} =>
                   /\ \E d \in routed : d.name = html.dir_path
                   /\ html.result =
                          (IF report \in FilesOf(html.dirs, html.dir_path)
                           THEN html.dir_path \o <<SLASH>> \o report
                           ELSE None)

\* A type containing both "Upregulated" and "DOXSET_RINN", with the DOXSET_1 and
\* the Upregulated folder holding the report too, gets the report of the
\* DOXSET_RINN folder.
C28_Witness ==
    /\ html.pc = "done"
    /\ html.regulation_type = RT_RINN_UP
    /\ \E d \in html.dirs : d.name = DIR_DOX1 /\ UP_GENES_HTML \in d.files
    /\ \E d \in html.dirs : d.name = DIR_UP /\ UP_GENES_HTML \in d.files
    /\ html.result = DIR_RINN \o <<SLASH>> \o UP_GENES_HTML

\* ---------------------------------------------------------------------------
\* create_interactive_gallery.py: ensure_png
\* ---------------------------------------------------------------------------

\* Latest modification time and clock reading in a checked run.
MaxTime == 3

\* A path with no file.
Missing == [exists |-> FALSE, mtime |-> 0, content |-> ""]

\* A file of that modification time and content.
FileOf(t, c) == [exists |-> TRUE, mtime |-> t, content |-> c]

\* What cairosvg.svg2png writes for an SVG of that content.
Svg2Png(svg_content) == "png of " \o svg_content

\* Variant of NeedsRender: a target as old as the SVG counts as stale.
NeedsRenderInclusive(target, svg) == ~target.exists \/ target.mtime <= svg.mtime

\* not target_path.exists() or target_path.stat().st_mtime < svg_path.stat().st_mtime
NeedsRender(target, svg) == ~target.exists \/ target.mtime < svg.mtime

\* The paths of a checked run: the SVG and two files of the PNG directory.
SVG_PATH == "annotated_enplots/a.svg"
PNG_PATHS == {"annotated_enplots_png/a.png", "annotated_enplots_png/b.png"}
PngPaths == {SVG_PATH} \union PNG_PATHS

\* The SVGs and the PNG files there may be before the call.
SvgFiles == {FileOf(t, c) : t \in 0..MaxTime, c \in {"svg 1", "svg 2"}}
PngFiles ==
    {Missing} \union {FileOf(t, c) : t \in 0..MaxTime, c \in {Svg2Png("svg 1"), Svg2Png("svg 2")}}

\* ensure_png(svg_path, target_path) is called: the SVG is there (its caller
\* has read it), the target and its directory may or may not be; "before" keeps
\* the files of the call for reference.
InitPng ==
    /\ PipelineIdle
    /\ SignificanceIdle /\ ConcatIdle /\ HtmlIdle
    /\ \E target_path \in PNG_PATHS, svg \in SvgFiles, target \in PngFiles,
          other \in {Missing, FileOf(0, Svg2Png("svg 2"))}, now \in 0..MaxTime,
          made \in BOOLEAN :
           LET fs == [p \in PngPaths |->
                         IF p = SVG_PATH THEN svg ELSE IF p = target_path THEN target ELSE other]
           IN  /\ (target.exists \/ other.exists) => made
               /\ png = [pc |-> "start", svg_path |-> SVG_PATH, target_path |-> target_path,
                         fs |-> fs, parent_exists |-> made, clock |-> now, before |-> fs,
                         rendered |-> FALSE, returned |-> ""]

\* target_path.parent.mkdir(parents=True, exist_ok=True)
PngMkdir ==
    /\ png.pc = "start"
    /\ png' = [png EXCEPT !.pc = "check", !.parent_exists = TRUE]
    /\ UNCHANGED <<pipelineVars, significanceVars, concatVars, html>>

\* The test of the "if": render, or go straight to the return.
PngCheck ==
    /\ png.pc = "check"
    /\ IF NeedsRender(png.fs[png.target_path], png.fs[png.svg_path])
       THEN png' = [png EXCEPT !.pc = "render"]
       ELSE png' = [png EXCEPT !.pc = "return"]
    /\ UNCHANGED <<pipelineVars, significanceVars, concatVars, html>>

\* cairosvg.svg2png(url=svg_path, write_to=target_path): the target is written
\* now, from the SVG.
PngRender ==
    /\ png.pc = "render"
    /\ png' = [png EXCEPT !.pc = "return", !.rendered = TRUE,
                          !.fs[png.target_path] =
                              FileOf(png.clock, Svg2Png(png.fs[png.svg_path].content))]
    /\ UNCHANGED <<pipelineVars, significanceVars, concatVars, html>>

\* return target_path
PngReturn ==
    /\ png.pc = "return"
    /\ png' = [png EXCEPT !.pc = "done", !.returned = png.target_path]
    /\ UNCHANGED <<pipelineVars, significanceVars, concatVars, html>>

NextPng == PngMkdir \/ PngCheck \/ PngRender \/ PngReturn

SpecPng == InitPng /\ [][NextPng]_vars

\* C29: ensure_png renders the SVG to the target path exactly when the target
\* was missing or older than the SVG; a target that was there and not older than
\* the SVG is left as it was; no other file changes, and in both cases the
\* target path is returned.
C29_EnsurePng ==
    png.pc = "done" =>
        LET target == png.before[png.target_path]
            svg == png.before[png.svg_path]
            stale == ~target.exists \/ target.mtime < svg.mtime
        IN  /\ png.rendered <=> stale
            /\ stale => png.fs[png.target_path] =
                            [exists |-> TRUE, mtime |-> png.clock,
                             content |-> Svg2Png(svg.content)]
            /\ ~stale => png.fs[png.target_path] = target
            /\ \A p \in PngPaths \ {png.target_path} : png.fs[p] = png.before[p]
            /\ png.returned = png.target_path

\* A target older than the SVG, rendered from another SVG, has been rendered
\* anew and its path returned.
C29_Witness ==
    /\ png.pc = "done"
    /\ png.before[png.target_path].exists
    /\ png.before[png.target_path].mtime < png.before[png.svg_path].mtime
    /\ png.before[png.target_path].content # png.fs[png.target_path].content
    /\ png.rendered
    /\ png.returned = png.target_path

\* A target as old as the SVG is kept as it was.
C29_WitnessKept ==
    /\ png.pc = "done"
    /\ png.before[png.target_path].exists
    /\ png.before[png.target_path].mtime = png.before[png.svg_path].mtime
    /\ png.clock # png.before[png.target_path].mtime
    /\ ~png.rendered
    /\ png.fs[png.target_path] = png.before[png.target_path]

====
